---------------------------- MODULE Spec2Model ----------------------------
(***************************************************************************)
(* A model of smtplog-server: the per-connection SMTP state machine of     *)
(* smtp_connection.go and the accept / shutdown discipline of the          *)
(* SMTPServer in database_logger.go (the snapshot that carries the         *)
(* DatabaseLogger, which smtp_connection.go is written against).           *)
(*                                                                         *)
(* Text that the program parses (input lines, addresses, the body) is a    *)
(* sequence of one-character strings, so that prefix tests, splitting and  *)
(* trimming are computed as strings.* computes them.  Literals of the      *)
(* program are TLA+ strings and are compared through Str.                  *)
(***************************************************************************)
EXTENDS Integers, Sequences, FiniteSets, TLC

VARIABLES
    conn,        \* the SMTPConnection under study (smtp_connection.go:38-50)
    pc,          \* where that connection's task is in handleConnection
    ctxDone,     \* the connection's context is done (deadline passed or cancel called)
    streamOpen,  \* the connection's stream has not been closed
    registered,  \* the connection is in the server's registry
    lastOp,      \* the kind of the task's last step
    lastInput,   \* the line of the last dispatch
    wire,        \* what the last step put on the wire, in order
    persisted,   \* the messages the last step handed to LogMail
    lastResult,  \* the CommandResult of the last dispatch
    tick,        \* flips on every step of the task
    netIn,       \* lines sent by the client and still in the socket
    sent,        \* every line the client has sent
    delivered,   \* every line readInput has returned
    vocabulary,  \* the command lines this client sends
    server,      \* the SMTPServer: registry, wait group, quit channel, listener
    tasks,       \* the handleConnection goroutines and their connections
    mainTask,    \* the goroutine of main: WaitForConnections, WaitForCleanup
    signalTask   \* the goroutine main starts for the termination signal

connVars == <<conn, pc, ctxDone, streamOpen, registered, lastOp, lastInput,
              wire, persisted, lastResult, tick, netIn, sent, delivered,
              vocabulary>>

serverVars == <<server, tasks, mainTask, signalTask>>

vars == <<connVars, serverVars>>

-----------------------------------------------------------------------------
(* Bounds of the model *)

\* the most lines a message body is let grow to
MaxBodyLines == 2
\* the most lines the client has in flight or has sent in the pipelined runs
MaxSent == 3
\* the most connections the listener is given
MaxConns == 2

-----------------------------------------------------------------------------
(* strings.* on sequences of characters *)

RECURSIVE Str(_)
Str(s) == IF s = <<>> THEN "" ELSE Head(s) \o Str(Tail(s))

Lower ==
    <<"a", "b", "c", "d", "e", "f", "g", "h", "i", "j", "k", "l", "m",
      "n", "o", "p", "q", "r", "s", "t", "u", "v", "w", "x", "y", "z">>
Upper ==
    <<"A", "B", "C", "D", "E", "F", "G", "H", "I", "J", "K", "L", "M",
      "N", "O", "P", "Q", "R", "S", "T", "U", "V", "W", "X", "Y", "Z">>

ToUpperChar(ch) ==
    IF \E i \in 1..26 : Lower[i] = ch
    THEN Upper[CHOOSE i \in 1..26 : Lower[i] = ch]
    ELSE ch

ToUpper(s) == [i \in 1..Len(s) |-> ToUpperChar(s[i])]

\* p is a literal of the program
HasPrefix(s, p) == Len(s) >= Len(p) /\ Str(SubSeq(s, 1, Len(p))) = p

HasSuffix(s, p) ==
    Len(s) >= Len(p) /\ Str(SubSeq(s, Len(s) - Len(p) + 1, Len(s))) = p

TrimPrefix(s, p) ==
    IF HasPrefix(s, p) THEN SubSeq(s, Len(p) + 1, Len(s)) ELSE s

\* strings.SplitN(s, sep, 2) for a one-character sep: one part when sep does
\* not occur, else the text before the first sep and all the text after it
SplitN2(s, sep) ==
    IF \E i \in 1..Len(s) : s[i] = sep
    THEN LET k == CHOOSE i \in 1..Len(s) :
                      s[i] = sep /\ \A j \in 1..(i - 1) : s[j] # sep
         IN  <<SubSeq(s, 1, k - 1), SubSeq(s, k + 1, Len(s))>>
    ELSE <<s>>

IsSpace(ch) == ch \in {" ", "\t", "\n", "\r"}

RECURSIVE TrimLeft(_)
TrimLeft(s) ==
    IF s # <<>> /\ IsSpace(Head(s)) THEN TrimLeft(Tail(s)) ELSE s

RECURSIVE TrimRight(_)
TrimRight(s) ==
    IF s # <<>> /\ IsSpace(s[Len(s)])
    THEN TrimRight(SubSeq(s, 1, Len(s) - 1))
    ELSE s

TrimSpace(s) == TrimRight(TrimLeft(s))

\* the lines of a text that ends every line with "\n"
RECURSIVE LinesOf(_)
LinesOf(data) ==
    IF data = <<>> THEN <<>>
    ELSE LET parts == SplitN2(data, "\n")
         IN  IF Len(parts) = 1 THEN <<parts[1]>>
             ELSE <<parts[1]>> \o LinesOf(parts[2])


-----------------------------------------------------------------------------
(* The values of smtp_connection.go *)

CommandResultOK == "CommandResultOK"
CommandResultError == "CommandResultError"
CommandResultDisconnect == "CommandResultDisconnect"

AuthenticationMechanismNone == "None"
AuthenticationMechanismLogin == "Login"
AuthenticationMechanismPlain == "Plain"

\* the zero SMTPMessage
SMTPMessage == [data |-> <<>>, from |-> <<>>, to |-> <<>>]

\* an SMTPResponse; partial is the zero value unless the code sets it
SMTPResponse(code, message) ==
    [code |-> code, partial |-> FALSE, message |-> message]

SMTPResponsePartial(code, message) ==
    [code |-> code, partial |-> TRUE, message |-> message]

\* the banner host and name the configuration supplies
BannerHost == "localhost"
BannerName == "smtp-log"

\* the connection handleConnection constructs: every field it does not name
\* is the zero value; tlsConfig is the context's value, logger tells
\* whether the calls of the context's DatabaseLogger succeed ("up") or return
\* an error ("down"), and peer whether the client's end of netConnection is
\* there ("open") or has reset the stream ("reset"), after which every write
\* on it and every read of the socket fails
NewConnection(tlsConfig) ==
    [authMechanism   |-> AuthenticationMechanismNone,
     authLines       |-> <<>>,
     isDisconnecting |-> FALSE,
     isReadingData   |-> FALSE,
     isReadingAuth   |-> FALSE,
     logger          |-> "up",
     message         |-> SMTPMessage,
     netConnection   |-> "plain",
     peer            |-> "open",
     textConnection  |-> [stream |-> "plain", buffer |-> <<>>],
     tlsConfig       |-> tlsConfig]

\* one line as sendMessages formats it: code, separator, message
WireLine(message) ==
    [code |-> message.code,
     sep  |-> IF message.partial THEN "-" ELSE " ",
     text |-> message.message]

\* sendMessages: every message is written, in order, to the connection's
\* textConnection as it is at the time of the call
sendMessages(connection, messages) ==
    [kind  |-> "batch",
     via   |-> connection.textConnection.stream,
     lines |-> [i \in 1..Len(messages) |-> WireLine(messages[i])]]

HasRecipient(message, address) ==
    \E i \in 1..Len(message.to) : message.to[i] = address

-----------------------------------------------------------------------------
(* A dispatch in progress: the connection, the responder's queue, what has  *)
(* been written and handed to the logger so far, and the result.  handshake *)
(* is the outcome tlsConn.Handshake() will have if it is called.  queued is *)
(* every response handed to Respond since the dispatch began, in order.     *)

Dispatch(connection, handshake) ==
    [conn      |-> connection,
     messages  |-> <<>>,
     queued    |-> <<>>,
     wire      |-> <<>>,
     mails     |-> <<>>,
     handshake |-> handshake,
     result    |-> CommandResultOK]

Respond(h, response) ==
    [h EXCEPT !.messages = Append(@, response),
              !.queued   = Append(@, response)]

\* a Flush that leaves the queue as it is
Flush_KeepQueue(h) ==
    IF Len(h.messages) = 0 THEN h
    ELSE [h EXCEPT !.wire = Append(@, sendMessages(h.conn, h.messages))]

\* a Flush that writes the queue last response first
Flush_Reversed(h) ==
    IF Len(h.messages) = 0 THEN h
    ELSE LET n == Len(h.messages)
             reversed == [i \in 1..n |-> h.messages[n + 1 - i]]
         IN  [h EXCEPT !.wire = Append(@, sendMessages(h.conn, reversed)),
                       !.messages = <<>>]

Flush(h) ==
    IF Len(h.messages) = 0 THEN h
    ELSE [h EXCEPT !.wire = Append(@, sendMessages(h.conn, h.messages)),
                   !.messages = <<>>]

Return(h, result) == [h EXCEPT !.result = result]

\* logMail: the message is handed to the logger; an error is only logged,
\* so what logMail does is the same whether h.conn.logger is up or down
logMail(h, message) == [h EXCEPT !.mails = Append(@, message)]

splitAddressCommand(arguments) ==
    IF Len(arguments) < 1 \/ ~HasPrefix(arguments, "<") \/ ~HasSuffix(arguments, ">")
    THEN [address |-> <<>>, rest |-> <<>>, err |-> TRUE]
    ELSE LET trimmed == TrimPrefix(arguments, "<")
             split   == SplitN2(trimmed, ">")
             parts   == IF Len(split) # 2 THEN Append(split, <<>>) ELSE split
         IN  [address |-> TrimSpace(parts[1]),
              rest    |-> TrimSpace(parts[2]),
              err     |-> FALSE]

\* a handleUnknownCommand that starts a new message
handleUnknownCommand_Resets(h, input) ==
    Return(Respond([h EXCEPT !.conn.message = SMTPMessage],
                   SMTPResponse(500, "Command not recognized")),
           CommandResultError)

handleUnknownCommand(h, input) ==
    Return(Respond(h, SMTPResponse(500, "Command not recognized")),
           CommandResultError)

\* a HandleAuthPayload that, asking for the password, sets isReadingData too
HandleAuthPayload_SetsBothFlags(h, input) ==
    LET h1 == [h EXCEPT !.conn.isReadingAuth = FALSE]
    IN  IF h1.conn.authMechanism = AuthenticationMechanismLogin
        THEN LET h2 == [h1 EXCEPT !.conn.authLines = Append(@, input)]
             IN  IF Len(h2.conn.authLines) < 2
                 THEN Return([Respond(h2, SMTPResponse(334, "UGFzc3dvcmQ6"))
                                 EXCEPT !.conn.isReadingAuth = TRUE,
                                        !.conn.isReadingData = TRUE],
                             CommandResultOK)
                 ELSE Return(Respond(h2, SMTPResponse(235,
                                 "2.7.0 Authentication successful")),
                             CommandResultOK)
        ELSE Return(h1, CommandResultError)

HandleAuthPayload(h, input) ==
    LET h1 == [h EXCEPT !.conn.isReadingAuth = FALSE]
    IN  IF h1.conn.authMechanism = AuthenticationMechanismLogin
        THEN LET h2 == [h1 EXCEPT !.conn.authLines = Append(@, input)]
             IN  IF Len(h2.conn.authLines) < 2
                 THEN Return([Respond(h2, SMTPResponse(334, "UGFzc3dvcmQ6"))
                                 EXCEPT !.conn.isReadingAuth = TRUE],
                             CommandResultOK)
                 ELSE Return(Respond(h2, SMTPResponse(235,
                                 "2.7.0 Authentication successful")),
                             CommandResultOK)
        ELSE Return(h1, CommandResultError)

\* a handleAuthPLAIN that waits for one more line before it is done
handleAuthPLAIN_Continues(h, arguments) ==
    Return(Respond([h EXCEPT !.conn.authMechanism = AuthenticationMechanismPlain,
                             !.conn.authLines = <<arguments>>,
                             !.conn.isReadingAuth = TRUE],
                   SMTPResponse(235, "2.7.0 Authentication successful")),
           CommandResultOK)

handleAuthPLAIN(h, arguments) ==
    Return(Respond([h EXCEPT !.conn.authMechanism = AuthenticationMechanismPlain,
                             !.conn.authLines = <<arguments>>],
                   SMTPResponse(235, "2.7.0 Authentication successful")),
           CommandResultOK)

\* a handleAuthLOGIN that leaves authMechanism as it finds it
handleAuthLOGIN_KeepsMechanism(h, arguments) ==
    Return(Respond([h EXCEPT !.conn.authLines = <<>>,
                             !.conn.isReadingAuth = TRUE],
                   SMTPResponse(334, "VXNlcm5hbWU6")),
           CommandResultOK)

handleAuthLOGIN(h, arguments) ==
    Return(Respond([h EXCEPT !.conn.authMechanism = AuthenticationMechanismLogin,
                             !.conn.authLines = <<>>,
                             !.conn.isReadingAuth = TRUE],
                   SMTPResponse(334, "VXNlcm5hbWU6")),
           CommandResultOK)

handleAUTH(h, input) ==
    LET split     == SplitN2(input, " ")
        parts     == IF Len(split) = 1 THEN Append(split, <<>>) ELSE split
        mechanism == Str(parts[1])
        arguments == parts[2]
    IN  CASE mechanism = "LOGIN" -> handleAuthLOGIN(h, arguments)
          [] mechanism = "PLAIN" -> handleAuthPLAIN(h, arguments)
          [] OTHER -> handleUnknownCommand(h, arguments)

\* a handleDATA that refuses only when sender and recipients are both missing
handleDATA_BothMissing(h, arguments) ==
    IF Len(h.conn.message.from) = 0 /\ Len(h.conn.message.to) = 0
    THEN Return(Respond(h, SMTPResponse(503, "Bad sequence of commands")),
                CommandResultError)
    ELSE Return([Respond(h, SMTPResponse(354, "End data with <CRLF>.<CRLF>"))
                    EXCEPT !.conn.isReadingData = TRUE],
                CommandResultOK)

handleDATA(h, arguments) ==
    IF Len(h.conn.message.from) = 0 \/ Len(h.conn.message.to) = 0
    THEN Return(Respond(h, SMTPResponse(503, "Bad sequence of commands")),
                CommandResultError)
    ELSE Return([Respond(h, SMTPResponse(354, "End data with <CRLF>.<CRLF>"))
                    EXCEPT !.conn.isReadingData = TRUE],
                CommandResultOK)

\* a HandlePayload that clears the message before it hands it to the logger
HandlePayload_ResetFirst(h, input) ==
    IF Str(input) = "."
    THEN LET h1 == [h EXCEPT !.conn.isReadingData = FALSE,
                             !.conn.message = SMTPMessage]
             h2 == logMail(h1, h1.conn.message)
         IN  Return(Respond(h2, SMTPResponse(250, "OK")), CommandResultOK)
    ELSE Return([h EXCEPT !.conn.message.data =
                              @ \o TrimPrefix(input, ".") \o <<"\n">>],
                CommandResultOK)

\* a HandlePayload that stores the line as it came
HandlePayload_NoUnstuffing(h, input) ==
    IF Str(input) = "."
    THEN LET h1 == [h EXCEPT !.conn.isReadingData = FALSE]
             h2 == logMail(h1, h1.conn.message)
             h3 == [h2 EXCEPT !.conn.message = SMTPMessage]
         IN  Return(Respond(h3, SMTPResponse(250, "OK")), CommandResultOK)
    ELSE Return([h EXCEPT !.conn.message.data = @ \o input \o <<"\n">>],
                CommandResultOK)

\* a HandlePayload that answers 451 and keeps the message when LogMail fails
HandlePayload_FailsWithLogger(h, input) ==
    IF Str(input) = "."
    THEN LET h1 == [h EXCEPT !.conn.isReadingData = FALSE]
             h2 == logMail(h1, h1.conn.message)
             h3 == [h2 EXCEPT !.conn.message = SMTPMessage]
         IN  IF h.conn.logger = "down"
             THEN Return(Respond(h2, SMTPResponse(451,
                             "Requested action aborted: local error")),
                         CommandResultError)
             ELSE Return(Respond(h3, SMTPResponse(250, "OK")), CommandResultOK)
    ELSE Return([h EXCEPT !.conn.message.data =
                              @ \o TrimPrefix(input, ".") \o <<"\n">>],
                CommandResultOK)

HandlePayload(h, input) ==
    IF Str(input) = "."
    THEN LET h1 == [h EXCEPT !.conn.isReadingData = FALSE]
             h2 == logMail(h1, h1.conn.message)
             h3 == [h2 EXCEPT !.conn.message = SMTPMessage]
         IN  Return(Respond(h3, SMTPResponse(250, "OK")), CommandResultOK)
    ELSE Return([h EXCEPT !.conn.message.data =
                              @ \o TrimPrefix(input, ".") \o <<"\n">>],
                CommandResultOK)

\* a handleEHLO whose last line, HELP, is marked partial like the others
handleEHLO_HelpPartial(h, arguments) ==
    LET lines ==
            <<BannerHost, "PIPELINING", "AUTH LOGIN PLAIN">>
                \o (IF h.conn.tlsConfig THEN <<"STARTTLS">> ELSE <<>>)
        partials ==
            [i \in 1..Len(lines) |-> SMTPResponsePartial(250, lines[i])]
    IN  Return(Respond([h EXCEPT !.messages = @ \o partials,
                                !.queued = @ \o partials],
                       SMTPResponsePartial(250, "HELP")),
               CommandResultOK)

\* a handleEHLO that offers STARTTLS whether or not there is a tlsConfig
handleEHLO_AlwaysSTARTTLS(h, arguments) ==
    LET lines ==
            <<BannerHost, "PIPELINING", "AUTH LOGIN PLAIN", "STARTTLS">>
        partials ==
            [i \in 1..Len(lines) |-> SMTPResponsePartial(250, lines[i])]
    IN  Return(Respond([h EXCEPT !.messages = @ \o partials,
                                !.queued = @ \o partials],
                       SMTPResponse(250, "HELP")),
               CommandResultOK)

handleEHLO(h, arguments) ==
    LET lines ==
            <<BannerHost, "PIPELINING", "AUTH LOGIN PLAIN">>
                \o (IF h.conn.tlsConfig THEN <<"STARTTLS">> ELSE <<>>)
        partials ==
            [i \in 1..Len(lines) |-> SMTPResponsePartial(250, lines[i])]
    IN  Return(Respond([h EXCEPT !.messages = @ \o partials,
                                !.queued = @ \o partials],
                       SMTPResponse(250, "HELP")),
               CommandResultOK)

handleHELO(h, arguments) ==
    Return(Respond(h, SMTPResponse(250, BannerHost)), CommandResultOK)

\* a handleHELP that answers with the code 211
handleHELP_Code211(h, arguments) ==
    Return(Respond(h, SMTPResponse(211,
               "I'm sorry Dave, I'm afraid I can't do that")),
           CommandResultOK)

handleHELP(h, arguments) ==
    Return(Respond(h, SMTPResponse(214,
               "I'm sorry Dave, I'm afraid I can't do that")),
           CommandResultOK)

\* a handleMAIL that starts a new envelope with the sender it accepts
handleMAIL_NewEnvelope(h, arguments) ==
    IF Len(arguments) < 1 \/ ~HasPrefix(arguments, "FROM:")
    THEN Return(Respond(h, SMTPResponse(501, "Syntax: MAIL FROM:<address>")),
                CommandResultError)
    ELSE LET split == splitAddressCommand(TrimPrefix(arguments, "FROM:"))
         IN  IF split.err
             THEN Return(Respond(h, SMTPResponse(501,
                             "Syntax: MAIL FROM:<address>")),
                         CommandResultError)
             ELSE Return(Respond([h EXCEPT !.conn.message =
                                     [SMTPMessage EXCEPT !.from = split.address]],
                                 SMTPResponse(250, "OK")),
                         CommandResultOK)

\* a handleMAIL that forgets the sender when the address is refused
handleMAIL_ClearsOnError(h, arguments) ==
    IF Len(arguments) < 1 \/ ~HasPrefix(arguments, "FROM:")
    THEN Return(Respond(h, SMTPResponse(501, "Syntax: MAIL FROM:<address>")),
                CommandResultError)
    ELSE LET split == splitAddressCommand(TrimPrefix(arguments, "FROM:"))
         IN  IF split.err
             THEN Return(Respond([h EXCEPT !.conn.message.from = <<>>],
                                 SMTPResponse(501,
                                     "Syntax: MAIL FROM:<address>")),
                         CommandResultError)
             ELSE Return(Respond([h EXCEPT !.conn.message.from = split.address],
                                 SMTPResponse(250, "OK")),
                         CommandResultOK)

handleMAIL(h, arguments) ==
    IF Len(arguments) < 1 \/ ~HasPrefix(arguments, "FROM:")
    THEN Return(Respond(h, SMTPResponse(501, "Syntax: MAIL FROM:<address>")),
                CommandResultError)
    ELSE LET split == splitAddressCommand(TrimPrefix(arguments, "FROM:"))
         IN  IF split.err
             THEN Return(Respond(h, SMTPResponse(501,
                             "Syntax: MAIL FROM:<address>")),
                         CommandResultError)
             ELSE Return(Respond([h EXCEPT !.conn.message.from = split.address],
                                 SMTPResponse(250, "OK")),
                         CommandResultOK)

handleNOOP(h, arguments) ==
    Return(Respond(h, SMTPResponse(250, "OK")), CommandResultOK)

\* a handleQUIT that answers 221 and lets the loop go on
handleQUIT_StaysOpen(h, arguments) ==
    Return(Respond(h, SMTPResponse(221, "Service closing transmission channel")),
           CommandResultOK)

handleQUIT(h, arguments) ==
    Return(Respond(h, SMTPResponse(221, "Service closing transmission channel")),
           CommandResultDisconnect)

\* a handleRCPT that does not look for the address among the recipients
handleRCPT_AlwaysAppends(h, arguments) ==
    IF Len(arguments) < 1 \/ ~HasPrefix(arguments, "TO:")
    THEN Return(Respond(h, SMTPResponse(501, "Syntax: RCPT TO:<address>")),
                CommandResultError)
    ELSE LET split == splitAddressCommand(TrimPrefix(arguments, "TO:"))
         IN  IF split.err
             THEN Return(Respond(h, SMTPResponse(501,
                             "Syntax: RCPT TO:<address>")),
                         CommandResultError)
             ELSE Return(Respond([h EXCEPT !.conn.message.to =
                                               Append(@, split.address)],
                                 SMTPResponse(250, "OK")),
                         CommandResultOK)

handleRCPT(h, arguments) ==
    IF Len(arguments) < 1 \/ ~HasPrefix(arguments, "TO:")
    THEN Return(Respond(h, SMTPResponse(501, "Syntax: RCPT TO:<address>")),
                CommandResultError)
    ELSE LET split == splitAddressCommand(TrimPrefix(arguments, "TO:"))
         IN  IF split.err
             THEN Return(Respond(h, SMTPResponse(501,
                             "Syntax: RCPT TO:<address>")),
                         CommandResultError)
             ELSE LET h1 == IF ~HasRecipient(h.conn.message, split.address)
                            THEN [h EXCEPT !.conn.message.to =
                                               Append(@, split.address)]
                            ELSE h
                  IN  Return(Respond(h1, SMTPResponse(250, "OK")),
                             CommandResultOK)

\* a handleRSET that keeps the recipients
handleRSET_KeepsRecipients(h, arguments) ==
    Return(Respond([h EXCEPT !.conn.message.from = <<>>,
                             !.conn.message.data = <<>>],
                   SMTPResponse(250, "OK")),
           CommandResultOK)

handleRSET(h, arguments) ==
    Return(Respond([h EXCEPT !.conn.message = SMTPMessage],
                   SMTPResponse(250, "OK")),
           CommandResultOK)

\* a handleSTARTTLS that starts a new message when it has no TLS material
handleSTARTTLS_Resets(h, arguments) ==
    IF ~h.conn.tlsConfig
    THEN Return(Respond([h EXCEPT !.conn.message = SMTPMessage],
                        SMTPResponse(502, "Command not implemented")),
                CommandResultError)
    ELSE LET h1 == Flush(Respond(h, SMTPResponse(220, "Ready to start TLS")))
             h2 == [h1 EXCEPT !.wire = Append(@,
                        [kind |-> "handshake",
                         via  |-> h1.conn.netConnection,
                         ok   |-> h1.handshake])]
         IN  IF ~h2.handshake
             THEN Return(Respond(h2, SMTPResponse(550, "Failed to start TLS")),
                         CommandResultDisconnect)
             ELSE Return([h2 EXCEPT
                             !.conn.netConnection = "tls",
                             !.conn.textConnection =
                                 [stream |-> "tls", buffer |-> <<>>]],
                         CommandResultOK)

\* a handleSTARTTLS that forgets the envelope and the auth state once the
\* handshake has succeeded
handleSTARTTLS_Discards(h, arguments) ==
    IF ~h.conn.tlsConfig
    THEN Return(Respond(h, SMTPResponse(502, "Command not implemented")),
                CommandResultError)
    ELSE LET h1 == Flush(Respond(h, SMTPResponse(220, "Ready to start TLS")))
             h2 == [h1 EXCEPT !.wire = Append(@,
                        [kind |-> "handshake",
                         via  |-> h1.conn.netConnection,
                         ok   |-> h1.handshake])]
         IN  IF ~h2.handshake
             THEN Return(Respond(h2, SMTPResponse(550, "Failed to start TLS")),
                         CommandResultDisconnect)
             ELSE Return([h2 EXCEPT
                             !.conn.message = SMTPMessage,
                             !.conn.authMechanism = AuthenticationMechanismNone,
                             !.conn.authLines = <<>>,
                             !.conn.netConnection = "tls",
                             !.conn.textConnection =
                                 [stream |-> "tls", buffer |-> <<>>]],
                         CommandResultOK)

\* a handleSTARTTLS that leaves the 220 to the deferred Flush
handleSTARTTLS_NoFlush(h, arguments) ==
    IF ~h.conn.tlsConfig
    THEN Return(Respond(h, SMTPResponse(502, "Command not implemented")),
                CommandResultError)
    ELSE LET h1 == Respond(h, SMTPResponse(220, "Ready to start TLS"))
             h2 == [h1 EXCEPT !.wire = Append(@,
                        [kind |-> "handshake",
                         via  |-> h1.conn.netConnection,
                         ok   |-> h1.handshake])]
         IN  IF ~h2.handshake
             THEN Return(Respond(h2, SMTPResponse(550, "Failed to start TLS")),
                         CommandResultDisconnect)
             ELSE Return([h2 EXCEPT
                             !.conn.netConnection = "tls",
                             !.conn.textConnection =
                                 [stream |-> "tls", buffer |-> <<>>]],
                         CommandResultOK)

\* tls.Server and Handshake run on netConnection, not on textConnection: the
\* handshake reads the socket itself, and the textproto.Conn made for the
\* secure stream starts with an empty read buffer
handleSTARTTLS(h, arguments) ==
    IF ~h.conn.tlsConfig
    THEN Return(Respond(h, SMTPResponse(502, "Command not implemented")),
                CommandResultError)
    ELSE LET h1 == Flush(Respond(h, SMTPResponse(220, "Ready to start TLS")))
             h2 == [h1 EXCEPT !.wire = Append(@,
                        [kind |-> "handshake",
                         via  |-> h1.conn.netConnection,
                         ok   |-> h1.handshake])]
         IN  IF ~h2.handshake
             THEN Return(Respond(h2, SMTPResponse(550, "Failed to start TLS")),
                         CommandResultDisconnect)
             ELSE Return([h2 EXCEPT
                             !.conn.netConnection = "tls",
                             !.conn.textConnection =
                                 [stream |-> "tls", buffer |-> <<>>]],
                         CommandResultOK)

handleVRFY(h, arguments) ==
    Return(Respond(h, SMTPResponse(252, "Cannot VRFY")), CommandResultOK)

\* the lookup in smtpCommands and the call of what it finds
smtpCommands(h, command, arguments, input) ==
    CASE command = "AUTH"     -> handleAUTH(h, arguments)
      [] command = "DATA"     -> handleDATA(h, arguments)
      [] command = "EHLO"     -> handleEHLO(h, arguments)
      [] command = "HELO"     -> handleHELO(h, arguments)
      [] command = "HELP"     -> handleHELP(h, arguments)
      [] command = "MAIL"     -> handleMAIL(h, arguments)
      [] command = "NOOP"     -> handleNOOP(h, arguments)
      [] command = "QUIT"     -> handleQUIT(h, arguments)
      [] command = "RCPT"     -> handleRCPT(h, arguments)
      [] command = "RSET"     -> handleRSET(h, arguments)
      [] command = "STARTTLS" -> handleSTARTTLS(h, arguments)
      [] command = "VRFY"     -> handleVRFY(h, arguments)
      [] OTHER                -> handleUnknownCommand(h, input)

\* a HandleInput that ends the session on an empty line, body or not
HandleInput_EmptyLineAlwaysEnds(h, input) ==
    IF Len(input) = 0
    THEN Return(h, CommandResultDisconnect)
    ELSE LET split     == SplitN2(input, " ")
             parts     == IF Len(split) = 1 THEN Append(split, <<>>) ELSE split
             command   == Str(ToUpper(parts[1]))
             arguments == parts[2]
         IN  IF h.conn.isReadingData THEN HandlePayload(h, input)
             ELSE IF h.conn.isReadingAuth THEN HandleAuthPayload(h, input)
             ELSE smtpCommands(h, command, arguments, input)

\* HandleCommand once the connection is known not to be disconnecting
HandleInput(h, input) ==
    IF ~h.conn.isReadingData /\ Len(input) = 0
    THEN Return(h, CommandResultDisconnect)
    ELSE LET split     == SplitN2(input, " ")
             parts     == IF Len(split) = 1 THEN Append(split, <<>>) ELSE split
             command   == Str(ToUpper(parts[1]))
             arguments == parts[2]
         IN  IF h.conn.isReadingData THEN HandlePayload(h, input)
             ELSE IF h.conn.isReadingAuth THEN HandleAuthPayload(h, input)
             ELSE smtpCommands(h, command, arguments, input)

RefuseDisconnecting(h) ==
    Return(Respond(h, SMTPResponse(421,
               "Service not available, closing transmission channel")),
           CommandResultDisconnect)

\* a HandleCommand that lets a message body in progress go on while the
\* connection is disconnecting
HandleCommandBody_PayloadFirst(h, input) ==
    IF h.conn.isDisconnecting /\ ~h.conn.isReadingData
    THEN RefuseDisconnecting(h)
    ELSE HandleInput(h, input)

\* HandleCommand up to its return; the deferred Flush is run by HandleCommand
HandleCommandBody(h, input) ==
    IF h.conn.isDisconnecting
    THEN RefuseDisconnecting(h)
    ELSE HandleInput(h, input)

\* a HandleCommand without the deferred Flush
HandleCommand_NoDeferredFlush(connection, input, handshake) ==
    HandleCommandBody(Dispatch(connection, handshake), input)

HandleCommand(connection, input, handshake) ==
    Flush(HandleCommandBody(Dispatch(connection, handshake), input))

-----------------------------------------------------------------------------
(* The lines a client sends *)

\* (the empty line)
L_EMPTY ==
    <<>>
\* .
L_DOT ==
    <<".">>
\* ..
L_DOTDOT ==
    <<".", ".">>
\* ..hello
L_DOTDOTHELLO ==
    <<".", ".", "h", "e", "l", "l", "o">>
\* Hello
L_HELLO ==
    <<"H", "e", "l", "l", "o">>
\* EHLO client
L_EHLO ==
    <<"E", "H", "L", "O", " ", "c", "l", "i", "e", "n", "t">>
\* HELO client
L_HELO ==
    <<"H", "E", "L", "O", " ", "c", "l", "i", "e", "n", "t">>
\* MAIL FROM:<a@x>
L_MAIL_A ==
    <<"M", "A", "I", "L", " ", "F", "R", "O", "M", ":", "<", "a", "@", "x", ">">>
\* mail FROM:<c@x>
L_MAIL_C ==
    <<"m", "a", "i", "l", " ", "F", "R", "O", "M", ":", "<", "c", "@", "x", ">">>
\* MAIL FROM:<>
L_MAIL_EMPTYADDR ==
    <<"M", "A", "I", "L", " ", "F", "R", "O", "M", ":", "<", ">">>
\* MAIL FROM:noprefix
L_MAIL_NOPREFIX ==
    <<"M", "A", "I", "L", " ", "F", "R", "O", "M", ":", "n", "o", "p", "r", "e", "f", "i", "x">>
\* MAIL <a@x>
L_MAIL_NOFROM ==
    <<"M", "A", "I", "L", " ", "<", "a", "@", "x", ">">>

\* MAIL
L_MAIL_NOARGS ==
    <<"M", "A", "I", "L">>
\* RCPT TO:<b@x>
L_RCPT_B ==
    <<"R", "C", "P", "T", " ", "T", "O", ":", "<", "b", "@", "x", ">">>
\* RCPT TO:<d@x>
L_RCPT_D ==
    <<"R", "C", "P", "T", " ", "T", "O", ":", "<", "d", "@", "x", ">">>
\* RCPT TO:b@x
L_RCPT_BAD ==
    <<"R", "C", "P", "T", " ", "T", "O", ":", "b", "@", "x">>
\* DATA
L_DATA ==
    <<"D", "A", "T", "A">>
\* RSET
L_RSET ==
    <<"R", "S", "E", "T">>
\* NOOP
L_NOOP ==
    <<"N", "O", "O", "P">>
\* HELP
L_HELP ==
    <<"H", "E", "L", "P">>
\* VRFY a@x
L_VRFY ==
    <<"V", "R", "F", "Y", " ", "a", "@", "x">>
\* QUIT
L_QUIT ==
    <<"Q", "U", "I", "T">>
\* AUTH LOGIN
L_AUTH_LOGIN ==
    <<"A", "U", "T", "H", " ", "L", "O", "G", "I", "N">>
\* AUTH PLAIN AGEAYg==
L_AUTH_PLAIN ==
    <<"A", "U", "T", "H", " ", "P", "L", "A", "I", "N", " ", "A", "G", "E", "A", "Y", "g", "=", "=">>
\* AUTH PLAIN
L_AUTH_PLAIN_NOARG ==
    <<"A", "U", "T", "H", " ", "P", "L", "A", "I", "N">>
\* AUTH CRAM-MD5
L_AUTH_OTHER ==
    <<"A", "U", "T", "H", " ", "C", "R", "A", "M", "-", "M", "D", "5">>
\* STARTTLS
L_STARTTLS ==
    <<"S", "T", "A", "R", "T", "T", "L", "S">>
\* FOO bar
L_UNKNOWN ==
    <<"F", "O", "O", " ", "b", "a", "r">>
\* dXNlcg==
L_USER ==
    <<"d", "X", "N", "l", "c", "g", "=", "=">>

\* What a client sends while the connection reads commands.  A client speaks
\* one of these vocabularies for the whole session.
MailLines ==
    {L_EMPTY, L_EHLO, L_MAIL_A, L_MAIL_C, L_MAIL_EMPTYADDR, L_MAIL_NOPREFIX,
     L_MAIL_NOFROM, L_MAIL_NOARGS, L_RCPT_B, L_RCPT_D, L_RCPT_BAD, L_DATA, L_RSET, L_QUIT,
     L_DOT}

AuthLines ==
    {L_EMPTY, L_HELO, L_NOOP, L_HELP, L_VRFY, L_UNKNOWN, L_AUTH_LOGIN,
     L_AUTH_PLAIN, L_AUTH_PLAIN_NOARG, L_AUTH_OTHER, L_MAIL_A, L_RCPT_B,
     L_DATA, L_RSET, L_QUIT}

TLSLines ==
    {L_STARTTLS, L_EHLO, L_MAIL_A, L_RCPT_B, L_DATA, L_NOOP, L_AUTH_PLAIN,
     L_QUIT}

Vocabularies == {MailLines, AuthLines, TLSLines}

CommandLines == UNION Vocabularies

\* what the client sends while the connection reads a message body
BodyLines == {L_DOT, L_DOTDOT, L_DOTDOTHELLO, L_QUIT, L_EMPTY}

\* what the client sends while the connection reads AUTH LOGIN replies
AuthPayloadLines == {L_USER, L_EMPTY, L_QUIT}

InputLines(connection, commands) ==
    IF connection.isReadingData THEN BodyLines
    ELSE IF connection.isReadingAuth THEN AuthPayloadLines
    ELSE commands

\* the number of lines of the body
BodyLength(connection) ==
    Cardinality({i \in 1..Len(connection.message.data) :
                     connection.message.data[i] = "\n"})

\* a dispatch of input that the model lets happen: a body stops growing at
\* MaxBodyLines
WithinBounds(connection, input) ==
    (connection.isReadingData /\ ~connection.isDisconnecting /\ Str(input) # ".")
        => BodyLength(connection) < MaxBodyLines

-----------------------------------------------------------------------------
(* Read errors: what errors.As(err, &opErr), opErr.Temporary() and          *)
(* opErr.Timeout() answer for the error readInput returned.                 *)

ErrTimeout   == [opError |-> TRUE,  temporary |-> TRUE,  timeout |-> TRUE]
ErrTemporary == [opError |-> TRUE,  temporary |-> TRUE,  timeout |-> FALSE]
ErrClosed    == [opError |-> TRUE,  temporary |-> FALSE, timeout |-> FALSE]
ErrEOF       == [opError |-> FALSE, temporary |-> FALSE, timeout |-> FALSE]

\* the errors a read of an open stream can end with
OpenStreamErrors == {ErrTimeout, ErrTemporary, ErrClosed, ErrEOF}

\* the errors a read of a closed stream ends with
ClosedStreamErrors == {ErrClosed}

canRetryError(connection, err) ==
    IF err.opError /\ err.temporary
    THEN ~connection.isDisconnecting
    ELSE FALSE

-----------------------------------------------------------------------------
(* One connection and its task: handleConnection from SendBanner on, with   *)
(* the server's Stop, the deadline of the context and CloseConnections as   *)
(* steps of the environment.                                                *)

None == <<"none">>

Conns == 1..MaxConns

\* the SMTPServer CreateSMTPServer returns, no connection accepted yet, main
\* about to call WaitForConnections, the signal not yet received
ServerAtStart ==
    /\ server = [connections  |-> <<>>,
                 waitGroup    |-> 0,
                 quitClosed   |-> FALSE,
                 listenerOpen |-> TRUE,
                 exited       |-> FALSE,
                 panicked     |-> FALSE]
    /\ tasks = [c \in Conns |->
                   [pc              |-> "none",
                    isDisconnecting |-> FALSE,
                    streamOpen      |-> FALSE,
                    left            |-> "none",
                    local           |-> <<>>]]
    /\ mainTask = [pc |-> "WaitForConnections"]
    /\ signalTask = [pc |-> "waiting", range |-> <<>>, local |-> <<>>,
                     stopped |-> FALSE, forced |-> <<>>]

Init ==
    /\ conn \in {NewConnection(t) : t \in BOOLEAN}
    /\ pc = "banner"
    /\ ctxDone = FALSE
    /\ streamOpen = TRUE
    /\ registered = TRUE
    /\ lastOp = "init"
    /\ lastInput = None
    /\ wire = <<>>
    /\ persisted = <<>>
    /\ lastResult = None
    /\ tick = 0
    /\ netIn = <<>>
    /\ sent = <<>>
    /\ delivered = <<>>
    /\ vocabulary \in Vocabularies
    /\ ServerAtStart

pipeVars == <<netIn, sent, delivered, vocabulary, serverVars>>

\* a step of the task that dispatches nothing
Quiet(op) ==
    /\ lastOp' = op
    /\ lastInput' = None
    /\ persisted' = <<>>
    /\ lastResult' = None

Banner ==
    sendMessages(conn, <<SMTPResponse(220, BannerHost \o " ESMTP " \o BannerName)>>)

\* a SendBanner that goes on to the loop with nothing written
SendBanner_Silent ==
    /\ pc = "banner"
    /\ pc' = "loop"
    /\ wire' = <<>>
    /\ Quiet("banner")
    /\ UNCHANGED <<conn, ctxDone, streamOpen, registered, tick, pipeVars>>

SendBanner ==
    /\ pc = "banner"
    /\ pc' = "loop"
    /\ wire' = <<Banner>>
    /\ Quiet("banner")
    /\ UNCHANGED <<conn, ctxDone, streamOpen, registered, tick, pipeVars>>

\* WaitForCommands at its select: return when the context is done, else read
LoopCheck ==
    /\ pc = "loop"
    /\ pc' = IF ctxDone THEN "close" ELSE "read"
    /\ wire' = <<>>
    /\ Quiet("check")
    /\ UNCHANGED <<conn, ctxDone, streamOpen, registered, tick, pipeVars>>

\* the effect of HandleCommand(input), called on connection, on the variables
Dispatched(connection, input, handshake) ==
    LET h == HandleCommand(connection, input, handshake)
    IN  /\ conn' = h.conn
        /\ wire' = h.wire
        /\ persisted' = h.mails
        /\ lastResult' = h.result
        /\ lastInput' = input
        /\ lastOp' = "dispatch"
        /\ tick' = 1 - tick
        /\ pc' = IF h.result = CommandResultDisconnect THEN "close" ELSE "loop"

\* readInput returns a line the client sends now, and it is dispatched
ReadLine(input, handshake) ==
    /\ pc = "read"
    /\ streamOpen
    /\ input \in InputLines(conn, vocabulary)
    /\ WithinBounds(conn, input)
    /\ Dispatched(conn, input, handshake)
    /\ UNCHANGED <<ctxDone, streamOpen, registered, pipeVars>>

\* readInput returns an error
ReadError(err) ==
    /\ pc = "read"
    /\ err \in (IF streamOpen THEN OpenStreamErrors ELSE ClosedStreamErrors)
    /\ pc' = IF canRetryError(conn, err) THEN "loop" ELSE "close"
    /\ wire' = <<>>
    /\ Quiet(IF err = ErrTimeout THEN "timeout" ELSE "readerr")
    /\ UNCHANGED <<conn, ctxDone, streamOpen, registered, tick, pipeVars>>

\* SMTPServer.Close called by the connection's own task
Close ==
    /\ pc = "close"
    /\ pc' = "closed"
    /\ ctxDone' = TRUE
    /\ streamOpen' = FALSE
    /\ registered' = FALSE
    /\ wire' = <<>>
    /\ Quiet("close")
    /\ UNCHANGED <<conn, tick, pipeVars>>

\* SMTPServer.Stop reaches this connection in its loop over the registry
StopMarks ==
    /\ registered
    /\ ~conn.isDisconnecting
    /\ conn' = [conn EXCEPT !.isDisconnecting = TRUE]
    /\ UNCHANGED <<pc, ctxDone, streamOpen, registered, lastOp, lastInput,
                   wire, persisted, lastResult, tick, pipeVars>>

\* the deadline of the connection's context passes
Expire ==
    /\ ~ctxDone
    /\ pc # "closed"
    /\ ctxDone' = TRUE
    /\ UNCHANGED <<conn, pc, streamOpen, registered, lastOp, lastInput, wire,
                   persisted, lastResult, tick, pipeVars>>

\* SMTPServer.CloseConnections reaches this connection: Close from outside
ForceClose ==
    /\ registered
    /\ ctxDone' = TRUE
    /\ streamOpen' = FALSE
    /\ registered' = FALSE
    /\ UNCHANGED <<conn, pc, lastOp, lastInput, wire, persisted, lastResult,
                   tick, pipeVars>>

Next ==
    \/ SendBanner
    \/ LoopCheck
    \/ \E input \in CommandLines \cup BodyLines \cup AuthPayloadLines,
          handshake \in BOOLEAN : ReadLine(input, handshake)
    \/ \E err \in OpenStreamErrors : ReadError(err)
    \/ Close
    \/ StopMarks
    \/ Expire
    \/ ForceClose

Spec == Init /\ [][Next]_vars

-----------------------------------------------------------------------------
(* The same task with the socket and the read buffer of textConnection in   *)
(* view: the client sends ahead of the replies, textproto's reader takes    *)
(* what the socket holds into its buffer and ReadLine returns the buffer's  *)
(* first line.  tls.Server is given netConnection, so the handshake reads   *)
(* the socket; it cannot succeed on lines that were sent in the clear.      *)

PipelineLines == {L_STARTTLS, L_NOOP, L_MAIL_A}

InitPipeline ==
    /\ conn = NewConnection(TRUE)
    /\ pc = "banner"
    /\ ctxDone = FALSE
    /\ streamOpen = TRUE
    /\ registered = TRUE
    /\ lastOp = "init"
    /\ lastInput = None
    /\ wire = <<>>
    /\ persisted = <<>>
    /\ lastResult = None
    /\ tick = 0
    /\ netIn = <<>>
    /\ sent = <<>>
    /\ delivered = <<>>
    /\ vocabulary = PipelineLines
    /\ ServerAtStart

ClientSend(line) ==
    /\ streamOpen
    /\ conn.peer = "open"
    /\ Len(sent) < MaxSent
    /\ line \in vocabulary
    /\ netIn' = Append(netIn, line)
    /\ sent' = Append(sent, line)
    /\ UNCHANGED <<conn, pc, ctxDone, streamOpen, registered, lastOp,
                   lastInput, wire, persisted, lastResult, tick, delivered,
                   vocabulary, serverVars>>

\* readInput: ReadLine takes the first line of the buffer, after the reader
\* has filled an empty buffer with the first n lines the socket holds; a
\* line already in the buffer is returned whatever became of the socket,
\* and a handshake succeeds only with a client that is there
BufferedRead(n, handshake) ==
    /\ pc = "read"
    /\ streamOpen
    /\ LET buffer == conn.textConnection.buffer
           filled == IF buffer = <<>> THEN SubSeq(netIn, 1, n) ELSE buffer
           rest   == IF buffer = <<>> THEN SubSeq(netIn, n + 1, Len(netIn))
                     ELSE netIn
       IN  /\ (buffer = <<>>) => n \in 1..Len(netIn) /\ conn.peer = "open"
           /\ (buffer # <<>>) => n = 0
           /\ (~handshake) \/ (rest = <<>> /\ conn.peer = "open")
           /\ netIn' = rest
           /\ delivered' = Append(delivered, Head(filled))
           /\ Dispatched([conn EXCEPT !.textConnection.buffer = Tail(filled)],
                         Head(filled), handshake)
    /\ UNCHANGED <<ctxDone, streamOpen, registered, sent, vocabulary, serverVars>>

\* the read deadline passes with nothing to read
ReadTimeout ==
    /\ pc = "read"
    /\ conn.textConnection.buffer = <<>>
    /\ netIn = <<>>
    /\ conn.peer = "open"
    /\ pc' = IF canRetryError(conn, ErrTimeout) THEN "loop" ELSE "close"
    /\ wire' = <<>>
    /\ Quiet("timeout")
    /\ UNCHANGED <<conn, ctxDone, streamOpen, registered, tick, pipeVars>>

NextPipeline ==
    \/ \E line \in PipelineLines : ClientSend(line)
    \/ SendBanner
    \/ LoopCheck
    \/ \E n \in 0..MaxSent, handshake \in BOOLEAN : BufferedRead(n, handshake)
    \/ ReadTimeout
    \/ Close
    \/ StopMarks

SpecPipeline == InitPipeline /\ [][NextPipeline]_vars

-----------------------------------------------------------------------------
(* The server: main's two goroutines and one goroutine per accepted         *)
(* connection, sharing n.connections, n.waitGroup, n.quitChannel and the    *)
(* listener. Every access to n.connections is a step of its own: the code   *)
(* reads and writes the slice with no lock.                                 *)

\* sync.WaitGroup.Add(1)
WaitGroupAdd(s) == [s EXCEPT !.waitGroup = @ + 1]

\* sync.WaitGroup.Done(): a counter below zero panics, which ends the process
WaitGroupDone(s) ==
    LET n == s.waitGroup - 1
    IN  [s EXCEPT !.waitGroup = n,
                  !.panicked  = (n < 0),
                  !.exited    = (n < 0)]

removeConnection(connections, remove) ==
    SelectSeq(connections, LAMBDA connection : connection # remove)

\* the connections the listener has handed out so far
Accepted == {c \in Conns : tasks[c].pc # "none"}

InitServer ==
    /\ conn = NewConnection(FALSE)
    /\ pc = "banner"
    /\ ctxDone = FALSE
    /\ streamOpen = TRUE
    /\ registered = TRUE
    /\ lastOp = "init"
    /\ lastInput = None
    /\ wire = <<>>
    /\ persisted = <<>>
    /\ lastResult = None
    /\ tick = 0
    /\ netIn = <<>>
    /\ sent = <<>>
    /\ delivered = <<>>
    /\ vocabulary = {}
    /\ ServerAtStart

\* WaitForConnections, line 204
WaitForConnections_Add ==
    /\ ~server.exited
    /\ mainTask.pc = "WaitForConnections"
    /\ server' = WaitGroupAdd(server)
    /\ mainTask' = [mainTask EXCEPT !.pc = "select"]
    /\ UNCHANGED <<connVars, tasks, signalTask>>

\* the select at the top of the accept loop, lines 211-216
WaitForConnections_select ==
    /\ ~server.exited
    /\ mainTask.pc = "select"
    /\ mainTask' = [mainTask EXCEPT
                      !.pc = IF server.quitClosed THEN "Done" ELSE "Accept"]
    /\ UNCHANGED <<connVars, server, tasks, signalTask>>

\* Accept returns a connection and its goroutine is started, lines 217, 230
WaitForConnections_Accept(c) ==
    /\ ~server.exited
    /\ mainTask.pc = "Accept"
    /\ server.listenerOpen
    /\ tasks[c].pc = "none"
    /\ \A d \in Conns : d < c => tasks[d].pc # "none"
    /\ tasks' = [tasks EXCEPT ![c].pc = "handleConnection",
                              ![c].streamOpen = TRUE]
    /\ mainTask' = [mainTask EXCEPT !.pc = "select"]
    /\ UNCHANGED <<connVars, server, signalTask>>

\* Accept fails on the closed listener, lines 218-228
WaitForConnections_AcceptError ==
    /\ ~server.exited
    /\ mainTask.pc = "Accept"
    /\ ~server.listenerOpen
    /\ mainTask' = [mainTask EXCEPT
                      !.pc = IF server.quitClosed THEN "Done" ELSE "select"]
    /\ UNCHANGED <<connVars, server, tasks, signalTask>>

\* the deferred Done of WaitForConnections, lines 205-207
WaitForConnections_Done ==
    /\ ~server.exited
    /\ mainTask.pc = "Done"
    /\ server' = WaitGroupDone(server)
    /\ mainTask' = [mainTask EXCEPT !.pc = "WaitForCleanup"]
    /\ UNCHANGED <<connVars, tasks, signalTask>>

\* Wait returns at counter zero; main returns and the process ends
WaitForCleanup ==
    /\ ~server.exited
    /\ mainTask.pc = "WaitForCleanup"
    /\ server.waitGroup = 0
    /\ mainTask' = [mainTask EXCEPT !.pc = "returned"]
    /\ server' = [server EXCEPT !.exited = TRUE]
    /\ UNCHANGED <<connVars, tasks, signalTask>>

\* handleConnection up to the read of n.connections in line 269
handleConnection_read(c) ==
    /\ ~server.exited
    /\ tasks[c].pc = "handleConnection"
    /\ tasks' = [tasks EXCEPT ![c].pc = "append",
                              ![c].local = server.connections]
    /\ UNCHANGED <<connVars, server, mainTask, signalTask>>

\* the assignment of line 269
handleConnection_append(c) ==
    /\ ~server.exited
    /\ tasks[c].pc = "append"
    /\ server' = [server EXCEPT !.connections = Append(tasks[c].local, c)]
    /\ tasks' = [tasks EXCEPT ![c].pc = "Add", ![c].local = <<>>]
    /\ UNCHANGED <<connVars, mainTask, signalTask>>

\* line 271
handleConnection_Add(c) ==
    /\ ~server.exited
    /\ tasks[c].pc = "Add"
    /\ server' = WaitGroupAdd(server)
    /\ tasks' = [tasks EXCEPT ![c].pc = "WaitForCommands"]
    /\ UNCHANGED <<connVars, mainTask, signalTask>>

\* the ways WaitForCommands returns: the context is done, a read error is
\* not retried, HandleCommand answered CommandResultDisconnect
LoopEnds == {"Done", "error", "Disconnect"}

\* SendBanner and WaitForCommands, lines 273-274: the loop ends on a
\* Disconnect result, a read error that is not retried or the context
handleConnection_WaitForCommands(c, why) ==
    /\ ~server.exited
    /\ tasks[c].pc = "WaitForCommands"
    /\ tasks' = [tasks EXCEPT ![c].pc = "Close", ![c].left = why]
    /\ UNCHANGED <<connVars, server, mainTask, signalTask>>

\* n.Close of line 276: lines 280-282 and the read of n.connections in 291
handleConnection_Close(c) ==
    /\ ~server.exited
    /\ tasks[c].pc = "Close"
    /\ tasks' = [tasks EXCEPT ![c].pc = "removeConnection",
                              ![c].streamOpen = FALSE,
                              ![c].local = server.connections]
    /\ UNCHANGED <<connVars, server, mainTask, signalTask>>

\* the assignment of line 291
handleConnection_remove(c) ==
    /\ ~server.exited
    /\ tasks[c].pc = "removeConnection"
    /\ server' = [server EXCEPT
                    !.connections = removeConnection(tasks[c].local, c)]
    /\ tasks' = [tasks EXCEPT ![c].pc = "Done", ![c].local = <<>>]
    /\ UNCHANGED <<connVars, mainTask, signalTask>>

\* line 292, then handleConnection returns
handleConnection_Done(c) ==
    /\ ~server.exited
    /\ tasks[c].pc = "Done"
    /\ server' = WaitGroupDone(server)
    /\ tasks' = [tasks EXCEPT ![c].pc = "returned"]
    /\ UNCHANGED <<connVars, mainTask, signalTask>>

\* the signal arrives and Stop closes the quit channel, line 187
Stop_close ==
    /\ ~server.exited
    /\ signalTask.pc = "waiting"
    /\ server' = [server EXCEPT !.quitClosed = TRUE]
    /\ signalTask' = [signalTask EXCEPT !.pc = "Stop"]
    /\ UNCHANGED <<connVars, tasks, mainTask>>

\* the range expression of line 189 is evaluated once
Stop_range ==
    /\ ~server.exited
    /\ signalTask.pc = "Stop"
    /\ signalTask' = [signalTask EXCEPT !.pc = "mark",
                                        !.range = server.connections]
    /\ UNCHANGED <<connVars, server, tasks, mainTask>>

\* one iteration of lines 189-191
Stop_mark ==
    /\ ~server.exited
    /\ signalTask.pc = "mark"
    /\ signalTask.range # <<>>
    /\ tasks' = [tasks EXCEPT ![Head(signalTask.range)].isDisconnecting = TRUE]
    /\ signalTask' = [signalTask EXCEPT !.range = Tail(@)]
    /\ UNCHANGED <<connVars, server, mainTask>>

\* line 193, then Stop returns
Stop_listenerClose ==
    /\ ~server.exited
    /\ signalTask.pc = "mark"
    /\ signalTask.range = <<>>
    /\ server' = [server EXCEPT !.listenerOpen = FALSE]
    /\ signalTask' = [signalTask EXCEPT !.pc = "Sleep", !.stopped = TRUE]
    /\ UNCHANGED <<connVars, tasks, mainTask>>

\* the sleep of main ends and CloseConnections evaluates its range, line 296
CloseConnections_range ==
    /\ ~server.exited
    /\ signalTask.pc = "Sleep"
    /\ signalTask' = [signalTask EXCEPT !.pc = "CloseConnections",
                                        !.range = server.connections,
                                        !.forced = server.connections]
    /\ UNCHANGED <<connVars, server, tasks, mainTask>>

\* n.Close of line 297: lines 280-282 and the read of n.connections in 291
CloseConnections_Close ==
    /\ ~server.exited
    /\ signalTask.pc = "CloseConnections"
    /\ signalTask.range # <<>>
    /\ tasks' = [tasks EXCEPT ![Head(signalTask.range)].streamOpen = FALSE]
    /\ signalTask' = [signalTask EXCEPT !.pc = "removeConnection",
                                        !.local = server.connections]
    /\ UNCHANGED <<connVars, server, mainTask>>

\* the assignment of line 291
CloseConnections_remove ==
    /\ ~server.exited
    /\ signalTask.pc = "removeConnection"
    /\ server' = [server EXCEPT
                    !.connections = removeConnection(signalTask.local,
                                                     Head(signalTask.range))]
    /\ signalTask' = [signalTask EXCEPT !.pc = "Done", !.local = <<>>]
    /\ UNCHANGED <<connVars, tasks, mainTask>>

\* line 292, then the next iteration
CloseConnections_Done ==
    /\ ~server.exited
    /\ signalTask.pc = "Done"
    /\ server' = WaitGroupDone(server)
    /\ signalTask' = [signalTask EXCEPT !.pc = "CloseConnections",
                                        !.range = Tail(@)]
    /\ UNCHANGED <<connVars, tasks, mainTask>>

\* CloseConnections returns
CloseConnections_return ==
    /\ ~server.exited
    /\ signalTask.pc = "CloseConnections"
    /\ signalTask.range = <<>>
    /\ signalTask' = [signalTask EXCEPT !.pc = "Fatalf"]
    /\ UNCHANGED <<connVars, server, tasks, mainTask>>

\* log.Fatalf ends the process
main_Fatalf ==
    /\ ~server.exited
    /\ signalTask.pc = "Fatalf"
    /\ server' = [server EXCEPT !.exited = TRUE]
    /\ signalTask' = [signalTask EXCEPT !.pc = "exited"]
    /\ UNCHANGED <<connVars, tasks, mainTask>>

NextServer ==
    \/ WaitForConnections_Add
    \/ WaitForConnections_select
    \/ \E c \in Conns : WaitForConnections_Accept(c)
    \/ WaitForConnections_AcceptError
    \/ WaitForConnections_Done
    \/ WaitForCleanup
    \/ \E c \in Conns : handleConnection_read(c)
    \/ \E c \in Conns : handleConnection_append(c)
    \/ \E c \in Conns : handleConnection_Add(c)
    \/ \E c \in Conns, why \in LoopEnds : handleConnection_WaitForCommands(c, why)
    \/ \E c \in Conns : handleConnection_Close(c)
    \/ \E c \in Conns : handleConnection_remove(c)
    \/ \E c \in Conns : handleConnection_Done(c)
    \/ Stop_close
    \/ Stop_range
    \/ Stop_mark
    \/ Stop_listenerClose
    \/ CloseConnections_range
    \/ CloseConnections_Close
    \/ CloseConnections_remove
    \/ CloseConnections_Done
    \/ CloseConnections_return
    \/ main_Fatalf

SpecServer == InitServer /\ [][NextServer]_vars

-----------------------------------------------------------------------------
(* What the claims speak of *)

\* this step is a dispatch of lastInput' by HandleCommand
DispatchStep == tick' # tick

\* the connection reads commands: neither a body nor AUTH replies
InCommand(connection) ==
    ~connection.isReadingData /\ ~connection.isReadingAuth

\* a batch of one final line on the stream
Reply(stream, code, text) ==
    [kind  |-> "batch",
     via   |-> stream,
     lines |-> <<[code |-> code, sep |-> " ", text |-> text]>>]

IsBatch(event) == event.kind = "batch"

Batches(events) == SelectSeq(events, IsBatch)

\* a line with one leading "." taken off, if it has one
Unstuffed(line) ==
    IF Len(line) > 0 /\ line[1] = "." THEN Tail(line) ELSE line

-----------------------------------------------------------------------------
(* C1: a line handled while isDisconnecting is set is answered by the one   *)
(* line 421 Service not available, closing transmission channel, whatever   *)
(* the line and the protocol state; the connection's fields stay as they    *)
(* were, nothing is handed to the logger, and the task goes on to Close,    *)
(* from where it only closes.                                               *)
C1_Disconnecting421 ==
    [][ /\ (DispatchStep /\ conn.isDisconnecting) =>
              /\ wire' = <<Reply(conn.textConnection.stream, 421,
                      "Service not available, closing transmission channel")>>
              /\ conn' = conn
              /\ persisted' = <<>>
              /\ lastResult' = CommandResultDisconnect
              /\ pc' = "close"
        /\ pc = "close" =>
              /\ ~DispatchStep
              /\ pc' \in {"close", "closed"}
              /\ pc' = "closed" => ~streamOpen' /\ ~registered'
      ]_vars

\* a "." that would have ended a message body was answered 421 instead
C1_Witness ==
    /\ lastOp = "dispatch"
    /\ lastInput = L_DOT
    /\ conn.isDisconnecting
    /\ conn.isReadingData
    /\ wire = <<Reply("plain", 421,
                   "Service not available, closing transmission channel")>>
    /\ pc = "close"

(* C2: DATA in command state is answered 354 and starts the body exactly    *)
(* when the sender is set and there is a recipient, and is answered 503     *)
(* with nothing changed otherwise; a connection that reads a body has a     *)
(* sender and a recipient.                                                  *)
C2_BodyHasEnvelope ==
    conn.isReadingData =>
        conn.message.from # <<>> /\ conn.message.to # <<>>

C2_DataNeedsEnvelope ==
    /\ C2_BodyHasEnvelope
    /\ [][ /\ C2_BodyHasEnvelope'
           /\ ( /\ DispatchStep
                /\ ~conn.isDisconnecting
                /\ InCommand(conn)
                /\ lastInput' = L_DATA ) =>
                  IF conn.message.from # <<>> /\ conn.message.to # <<>>
                  THEN /\ wire' = <<Reply(conn.textConnection.stream, 354,
                                      "End data with <CRLF>.<CRLF>")>>
                       /\ conn'.isReadingData
                       /\ pc' = "loop"
                  ELSE /\ wire' = <<Reply(conn.textConnection.stream, 503,
                                      "Bad sequence of commands")>>
                       /\ conn' = conn
                       /\ pc' = "loop"
         ]_vars

\* DATA was refused with a recipient but no sender, after MAIL FROM:<>
C2_Witness ==
    /\ lastOp = "dispatch"
    /\ lastInput = L_DATA
    /\ conn.message.from = <<>>
    /\ conn.message.to # <<>>
    /\ wire = <<Reply("plain", 503, "Bad sequence of commands")>>

(* C3: in a body, the line "." hands the message as it stands to the logger *)
(* once, clears the message, answers 250 and goes back to commands; no      *)
(* other step hands anything to the logger.                                 *)
C3_TerminatorPersistsOnce ==
    [][ /\ ( /\ DispatchStep
             /\ conn.isReadingData
             /\ ~conn.isDisconnecting
             /\ lastInput' = L_DOT ) =>
               /\ persisted' = <<conn.message>>
               /\ conn'.message = SMTPMessage
               /\ InCommand(conn')
               /\ wire' = <<Reply(conn.textConnection.stream, 250, "OK")>>
               /\ pc' = "loop"
        /\ (DispatchStep /\ persisted' # <<>>) =>
               /\ conn.isReadingData
               /\ ~conn.isDisconnecting
               /\ lastInput' = L_DOT
        /\ ~DispatchStep => persisted' \in {<<>>, persisted}
      ]_vars

\* a message with a body of one line was handed over
C3_Witness ==
    /\ lastOp = "dispatch"
    /\ lastInput = L_DOT
    /\ Len(persisted) = 1
    /\ persisted[1].from = <<"a", "@", "x">>
    /\ persisted[1].to = <<<<"b", "@", "x">>, <<"d", "@", "x">>>>
    /\ persisted[1].data = <<".", "h", "e", "l", "l", "o", "\n">>
    /\ conn.message = SMTPMessage

(* C4 as amended: in a body, every line but "." is stored with one leading  *)
(* "." taken off and a line end put after it, and the body is otherwise as  *)
(* it was; the line "." itself is never stored and ends the body.           *)
C4_DotUnstuffing ==
    [][ ( /\ DispatchStep
          /\ conn.isReadingData
          /\ ~conn.isDisconnecting ) =>
            IF lastInput' = L_DOT
            THEN /\ persisted' = <<conn.message>>
                 /\ ~conn'.isReadingData
            ELSE /\ conn'.message.data =
                        conn.message.data \o Unstuffed(lastInput') \o <<"\n">>
                 /\ conn' = [conn EXCEPT !.message.data = conn'.message.data]
                 /\ conn'.isReadingData
                 /\ wire' = <<>>
                 /\ persisted' = <<>>
      ]_vars

\* ..hello was stored as .hello
C4_Witness ==
    /\ lastOp = "dispatch"
    /\ lastInput = L_DOTDOTHELLO
    /\ conn.isReadingData
    /\ LinesOf(conn.message.data) = <<<<".", "h", "e", "l", "l", "o">>>>

\* C4 as stated: no line of the stored body is the line "."
C4_NoDotLineStored ==
    \A i \in 1..Len(LinesOf(conn.message.data)) :
        LinesOf(conn.message.data)[i] # <<".">>

(* C8: STARTTLS in command state with TLS material writes 220 on the stream *)
(* in use (the plaintext stream of a connection not yet upgraded) before    *)
(* the handshake starts; after a handshake that succeeds the connection     *)
(* reads commands on the secure stream, which it never leaves and on which  *)
(* everything later is written; after one that fails 550 is written and the *)
(* task goes on to Close.                                                   *)
C8_StartTLS ==
    [][ /\ ( /\ DispatchStep
             /\ ~conn.isDisconnecting
             /\ InCommand(conn)
             /\ conn.tlsConfig
             /\ lastInput' = L_STARTTLS ) =>
               /\ Len(wire') >= 2
               /\ wire'[1] = Reply(conn.textConnection.stream, 220,
                                   "Ready to start TLS")
               /\ wire'[2].kind = "handshake"
               /\ wire'[2].via = conn.netConnection
               /\ IF wire'[2].ok
                  THEN /\ Len(wire') = 2
                       /\ conn' = [conn EXCEPT
                              !.netConnection = "tls",
                              !.textConnection = [stream |-> "tls",
                                                  buffer |-> <<>>]]
                       /\ InCommand(conn')
                       /\ pc' = "loop"
                  ELSE /\ wire' = <<wire'[1], wire'[2],
                              Reply(conn.textConnection.stream, 550,
                                    "Failed to start TLS")>>
                       /\ lastResult' = CommandResultDisconnect
                       /\ pc' = "close"
        /\ conn.netConnection = "plain" => conn.textConnection.stream = "plain"
        /\ conn.netConnection = "tls" =>
               /\ conn'.netConnection = "tls"
               /\ conn'.textConnection.stream = "tls"
               /\ \A i \in 1..Len(wire') :
                      IsBatch(wire'[i]) /\ DispatchStep => wire'[i].via = "tls"
      ]_vars

\* a handshake succeeded on the plaintext stream, after the 220 went out on it
C8_Witness ==
    /\ lastOp = "dispatch"
    /\ lastInput = L_STARTTLS
    /\ wire = <<Reply("plain", 220, "Ready to start TLS"),
                [kind |-> "handshake", via |-> "plain", ok |-> TRUE]>>
    /\ conn.netConnection = "tls"
    /\ conn.textConnection.stream = "tls"
    /\ pc = "loop"

(* C10 as amended: a dispatched line is answered by exactly one batch,      *)
(* except that a body line other than "." and an empty line outside a body  *)
(* are answered by none, and a STARTTLS whose handshake fails by two (220   *)
(* before the handshake, 550 after it).                                     *)
C10_BatchesPerLine ==
    [][ DispatchStep =>
          Len(Batches(wire')) =
            IF conn.isDisconnecting THEN 1
            ELSE IF conn.isReadingData
                 THEN (IF lastInput' = L_DOT THEN 1 ELSE 0)
            ELSE IF lastInput' = L_EMPTY THEN 0
            ELSE IF /\ lastInput' = L_STARTTLS
                    /\ conn.tlsConfig
                    /\ lastResult' = CommandResultDisconnect THEN 2
            ELSE 1
      ]_vars

\* a STARTTLS was answered by one batch, the 220, and the handshake went well
C10_Witness ==
    /\ lastOp = "dispatch"
    /\ lastInput = L_STARTTLS
    /\ conn.netConnection = "tls"
    /\ Len(Batches(wire)) = 1
    /\ Len(wire) = 2

\* C10 as stated: every dispatched line is answered by exactly one batch
C10_ExactlyOneBatch ==
    [][ DispatchStep => Len(Batches(wire')) = 1 ]_vars

(* C9: a transport upgrade loses nothing the client sent: while the task   *)
(* reads and dispatches, every line sent is a line already returned by      *)
(* readInput, a line in the read buffer, or a line still in the socket, in  *)
(* the order sent.                                                          *)
C9_NothingLost ==
    pc \in {"loop", "read"} =>
        sent = delivered \o conn.textConnection.buffer \o netIn

\* the connections a registry value holds
Members(connections) == {connections[i] : i \in 1..Len(connections)}

\* accepted and not yet closed
Live(c) == tasks[c].streamOpen

(* C5: once Stop has returned, every live connection (accepted, not yet     *)
(* closed) has isDisconnecting set, whatever the accept loop and the        *)
(* registration of line 269 did meanwhile.                                  *)
C5_StopMarksEveryLive ==
    signalTask.stopped =>
        \A c \in Conns : Live(c) => tasks[c].isDisconnecting

(* C6: when WaitForCleanup returns and CloseConnections has not begun,      *)
(* every accepted connection has left its loop, been closed and its         *)
(* goroutine has returned.                                                  *)
C6_DrainWaitsForTasks ==
    (/\ mainTask.pc = "returned"
     /\ signalTask.pc \in {"waiting", "Stop", "mark", "Sleep"}) =>
        \A c \in Accepted : tasks[c].pc = "returned"

(* C7: once CloseConnections has returned, every connection that was in     *)
(* n.connections when it began has its stream closed and is no longer in    *)
(* n.connections.                                                           *)
C7_ForcedCloseEmptiesRegistry ==
    signalTask.pc \in {"Fatalf", "exited"} =>
        \A c \in Members(signalTask.forced) :
            /\ ~tasks[c].streamOpen
            /\ c \notin Members(server.connections)

\* the verb of a command line, as HandleCommand looks it up
Verb(line) == Str(ToUpper(SplitN2(line, " ")[1]))

\* the step ran a handshake and it failed
HandshakeFailed(events) ==
    \E i \in 1..Len(events) :
        events[i].kind = "handshake" /\ ~events[i].ok

(* C11: a dispatch ends the session only when isDisconnecting is set, when  *)
(* the line is QUIT or empty while the connection reads commands, or when   *)
(* a STARTTLS handshake failed; every other line, any line of an AUTH       *)
(* continuation and any line of a body among them, leaves the session open. *)
C11_EndsOnlyWhenMeant ==
    [][ (DispatchStep /\ lastResult' = CommandResultDisconnect) =>
            \/ conn.isDisconnecting
            \/ InCommand(conn) /\ Verb(lastInput') = "QUIT"
            \/ InCommand(conn) /\ lastInput' = L_EMPTY
            \/ InCommand(conn) /\ HandshakeFailed(wire')
      ]_vars

(* C12, the part one connection decides: QUIT while the connection reads    *)
(* commands is answered 221 Service closing transmission channel and ends   *)
(* the loop; from there the task dispatches no further line and only        *)
(* closes, which closes the stream.                                         *)
C12_QuitEndsDispatch ==
    [][ /\ ( /\ DispatchStep
             /\ ~conn.isDisconnecting
             /\ InCommand(conn)
             /\ Verb(lastInput') = "QUIT" ) =>
               /\ wire' = <<Reply(conn.textConnection.stream, 221,
                               "Service closing transmission channel")>>
               /\ lastResult' = CommandResultDisconnect
               /\ pc' = "close"
        /\ pc \in {"close", "closed"} =>
               /\ ~DispatchStep
               /\ pc' \in {"close", "closed"}
               /\ pc' = "closed" => ~streamOpen'
      ]_vars

(* C12: once the goroutine of a connection whose loop ended on a            *)
(* CommandResultDisconnect, as it does after QUIT, has run Close and        *)
(* returned, the connection's stream is closed and the connection is not    *)
(* in n.connections.                                                        *)
C12_QuitClosesAndUnregisters ==
    \A c \in Conns :
        (tasks[c].pc = "returned" /\ tasks[c].left = "Disconnect") =>
            /\ ~tasks[c].streamOpen
            /\ c \notin Members(server.connections)

(* C13: a MAIL answered 250 has set a sender that is not empty, so that     *)
(* MAIL FROM:<> is not answered 250.                                        *)
C13_Mail250SetsSender ==
    [][ ( /\ DispatchStep
          /\ ~conn.isDisconnecting
          /\ InCommand(conn)
          /\ Verb(lastInput') = "MAIL"
          /\ wire' = <<Reply(conn.textConnection.stream, 250, "OK")>> ) =>
            conn'.message.from # <<>>
      ]_vars

\* the text after the first space of a command line
Arguments(line) ==
    LET parts == SplitN2(line, " ")
    IN  IF Len(parts) = 1 THEN <<>> ELSE parts[2]

\* arguments are not keyword followed by text that begins "<" and ends ">"
Malformed(arguments, keyword) ==
    \/ ~HasPrefix(arguments, keyword)
    \/ LET address == TrimPrefix(arguments, keyword)
       IN  ~(HasPrefix(address, "<") /\ HasSuffix(address, ">"))

(* C14: a MAIL whose argument lacks FROM: or the angle brackets is answered *)
(* 501 Syntax: MAIL FROM:<address>; sender, recipients, body and every      *)
(* other field of the connection stay as they were and the connection       *)
(* goes on reading commands.                                                *)
C14_MalformedMail501 ==
    [][ ( /\ DispatchStep
          /\ ~conn.isDisconnecting
          /\ InCommand(conn)
          /\ Verb(lastInput') = "MAIL"
          /\ Malformed(Arguments(lastInput'), "FROM:") ) =>
            /\ wire' = <<Reply(conn.textConnection.stream, 501,
                            "Syntax: MAIL FROM:<address>")>>
            /\ conn' = conn
            /\ InCommand(conn')
            /\ lastResult' = CommandResultError
            /\ persisted' = <<>>
            /\ pc' = "loop"
      ]_vars

\* MAIL FROM:noprefix was refused and the sender set before is still there
C14_Witness ==
    /\ lastOp = "dispatch"
    /\ lastInput = L_MAIL_NOPREFIX
    /\ conn.message.from = <<"a", "@", "x">>
    /\ conn.message.to # <<>>
    /\ wire = <<Reply("plain", 501, "Syntax: MAIL FROM:<address>")>>
    /\ pc = "loop"

\* no value occurs twice in the sequence
NoDuplicate(seq) ==
    \A i, j \in 1..Len(seq) : seq[i] = seq[j] => i = j

\* the address of well-formed arguments: the text between the "<" after the
\* keyword and the first ">", without the white space around it
AddressOf(arguments, keyword) ==
    TrimSpace(SplitN2(Tail(TrimPrefix(arguments, keyword)), ">")[1])

(* C15: no address occurs twice among the recipients.  A well-formed RCPT   *)
(* is answered 250 OK; it puts its address after the recipients there are   *)
(* when the address is not among them, and changes nothing when it is.      *)
C15_RecipientsNoDuplicate ==
    /\ NoDuplicate(conn.message.to)
    /\ [][ /\ NoDuplicate(conn'.message.to)
           /\ ( /\ DispatchStep
                /\ ~conn.isDisconnecting
                /\ InCommand(conn)
                /\ Verb(lastInput') = "RCPT"
                /\ ~Malformed(Arguments(lastInput'), "TO:") ) =>
                  LET address == AddressOf(Arguments(lastInput'), "TO:")
                  IN  /\ wire' = <<Reply(conn.textConnection.stream,
                                         250, "OK")>>
                      /\ conn' = [conn EXCEPT !.message.to =
                                    IF HasRecipient(conn.message, address)
                                    THEN @ ELSE Append(@, address)]
                      /\ pc' = "loop"
         ]_vars

\* RCPT TO:<b@x> was sent again after RCPT TO:<d@x> and changed nothing
C15_Witness ==
    /\ lastOp = "dispatch"
    /\ lastInput = L_RCPT_B
    /\ conn.message.to = <<<<"b", "@", "x">>, <<"d", "@", "x">>>>
    /\ wire = <<Reply("plain", 250, "OK")>>

(* C16: RSET while the connection reads commands is answered 250 OK and     *)
(* leaves sender, recipients and body empty and everything else as it was,  *)
(* whatever the message held; a second RSET handled right after changes     *)
(* nothing more and is answered the same, and a DATA handled right after    *)
(* is answered 503 and changes nothing.                                     *)
C16_RsetClearsEnvelope ==
    [][ ( /\ DispatchStep
          /\ ~conn.isDisconnecting
          /\ InCommand(conn)
          /\ Verb(lastInput') = "RSET" ) =>
            LET again == HandleCommand(conn', L_RSET, FALSE)
                data  == HandleCommand(conn', L_DATA, FALSE)
            IN  /\ wire' = <<Reply(conn.textConnection.stream, 250, "OK")>>
                /\ conn' = [conn EXCEPT !.message = SMTPMessage]
                /\ conn'.message.from = <<>>
                /\ conn'.message.to = <<>>
                /\ conn'.message.data = <<>>
                /\ persisted' = <<>>
                /\ pc' = "loop"
                /\ again.conn = conn'
                /\ again.wire = wire'
                /\ again.result = lastResult'
                /\ data.conn = conn'
                /\ data.wire = <<Reply(conn.textConnection.stream, 503,
                                       "Bad sequence of commands")>>
      ]_vars

\* RSET was answered 250 OK and the envelope is empty
C16_Witness ==
    /\ lastOp = "dispatch"
    /\ lastInput = L_RSET
    /\ ~conn.isDisconnecting
    /\ conn.message = SMTPMessage
    /\ wire = <<Reply("plain", 250, "OK")>>
    /\ pc = "loop"

(* C17: STARTTLS on a connection with no TLS material is answered 502       *)
(* Command not implemented and nothing else is written or tried; message,   *)
(* auth state, transport and every other field stay as they were and the    *)
(* connection goes on reading commands.                                     *)
C17_StartTLSWithoutConfig ==
    [][ ( /\ DispatchStep
          /\ ~conn.isDisconnecting
          /\ InCommand(conn)
          /\ Verb(lastInput') = "STARTTLS"
          /\ ~conn.tlsConfig ) =>
            /\ wire' = <<Reply(conn.textConnection.stream, 502,
                            "Command not implemented")>>
            /\ conn' = conn
            /\ InCommand(conn')
            /\ lastResult' = CommandResultError
            /\ persisted' = <<>>
            /\ pc' = "loop"
      ]_vars

\* STARTTLS was refused with a sender, a recipient and AUTH PLAIN in place
C17_Witness ==
    /\ lastOp = "dispatch"
    /\ lastInput = L_STARTTLS
    /\ ~conn.tlsConfig
    /\ conn.netConnection = "plain"
    /\ conn.message.from = <<"a", "@", "x">>
    /\ conn.message.to = <<<<"b", "@", "x">>>>
    /\ conn.authMechanism = AuthenticationMechanismPlain
    /\ wire = <<Reply("plain", 502, "Command not implemented")>>
    /\ pc = "loop"

(* C18: a connection marked isDisconnecting whose read ends at the read     *)
(* deadline with no line is still sent the 421 before it is closed.         *)
C18_Idle421 ==
    [][ ( /\ conn.isDisconnecting
          /\ pc = "read"
          /\ lastOp' = "timeout" ) =>
            wire' = <<Reply(conn.textConnection.stream, 421,
                        "Service not available, closing transmission channel")>>
      ]_vars

(* C19: when the process has ended after a termination signal, every        *)
(* connection the listener handed out has been closed.                      *)
C19_EndsWithAllClosed ==
    (server.exited /\ signalTask.pc # "waiting") =>
        \A c \in Accepted : ~tasks[c].streamOpen

\* the steps of the goroutine that handles the termination signal, once the
\* signal has arrived
SignalSteps ==
    \/ Stop_range
    \/ Stop_mark
    \/ Stop_listenerClose
    \/ CloseConnections_range
    \/ CloseConnections_Close
    \/ CloseConnections_remove
    \/ CloseConnections_Done
    \/ CloseConnections_return
    \/ main_Fatalf

\* the server with a scheduler that lets a goroutine that can run, run: the
\* goroutine of the signal is not held back for ever
SpecServerFair == SpecServer /\ WF_vars(SignalSteps)

(* C19, the part the scheduler decides: once the signal has arrived the     *)
(* process ends.                                                            *)
C19_ProcessEnds == (signalTask.pc # "waiting") ~> server.exited

(* C19, the accept loop: once Stop has returned no connection is accepted.  *)
C19_NoAcceptAfterStop ==
    [][ signalTask.stopped => Accepted' = Accepted ]_vars

(* C20, the part one connection decides: a context that is done stays done; *)
(* once it is done the task does not start another read, so that at most    *)
(* the read in progress is dispatched; its next step from the top of the    *)
(* loop is to Close, and Close closes the stream.                           *)
C20_OneMoreDispatch ==
    [][ /\ ctxDone => ctxDone'
        /\ (ctxDone /\ pc \in {"loop", "close", "closed"}) =>
              /\ ~DispatchStep
              /\ pc' \in {"loop", "close", "closed"}
        /\ (ctxDone /\ pc = "loop" /\ pc' # "loop") => pc' = "close"
        /\ (pc = "close" /\ pc' # "close") =>
              pc' = "closed" /\ ~streamOpen' /\ ctxDone'
      ]_vars

(* C20: once the goroutine of a connection whose loop ended on its context  *)
(* has run Close and returned, the connection's stream is closed and the    *)
(* connection is not in n.connections.                                      *)
C20_ExpiredClosesAndUnregisters ==
    \A c \in Conns :
        (tasks[c].pc = "returned" /\ tasks[c].left = "Done") =>
            /\ ~tasks[c].streamOpen
            /\ c \notin Members(server.connections)

\* the batch of continuation lines 250-<text> that ends with 250 <last>
Multiline(stream, texts, last) ==
    [kind  |-> "batch",
     via   |-> stream,
     lines |-> [i \in 1..Len(texts) + 1 |->
                   IF i <= Len(texts)
                   THEN [code |-> 250, sep |-> "-", text |-> texts[i]]
                   ELSE [code |-> 250, sep |-> " ", text |-> last]]]

\* what EHLO is answered with: the banner host and the capabilities
Capabilities(tlsAvailable) ==
    <<BannerHost, "PIPELINING", "AUTH LOGIN PLAIN">>
        \o (IF tlsAvailable THEN <<"STARTTLS">> ELSE <<>>)

(* C21 as amended: EHLO while the connection reads commands is answered by  *)
(* one batch: 250- lines with the banner host, PIPELINING, AUTH LOGIN PLAIN *)
(* and, exactly when there is TLS material, STARTTLS, then the final line   *)
(* 250 HELP.  HELO is answered by the one line 250 <banner host>.  Either   *)
(* way the connection stays as it was and goes on reading commands.         *)
C21_EhloCapabilitiesHeloOneLine ==
    [][ ( /\ DispatchStep
          /\ ~conn.isDisconnecting
          /\ InCommand(conn)
          /\ Verb(lastInput') \in {"EHLO", "HELO"} ) =>
            /\ wire' =
                 IF Verb(lastInput') = "EHLO"
                 THEN <<Multiline(conn.textConnection.stream,
                                  Capabilities(conn.tlsConfig), "HELP")>>
                 ELSE <<Reply(conn.textConnection.stream, 250, BannerHost)>>
            /\ conn' = conn
            /\ lastResult' = CommandResultOK
            /\ pc' = "loop"
      ]_vars

\* EHLO was answered with STARTTLS among the capabilities
C21_Witness ==
    /\ lastOp = "dispatch"
    /\ lastInput = L_EHLO
    /\ conn.tlsConfig
    /\ InCommand(conn)
    /\ wire = <<Multiline("plain", <<BannerHost, "PIPELINING",
                                     "AUTH LOGIN PLAIN", "STARTTLS">>, "HELP")>>
    /\ pc = "loop"

\* C21 as stated: EHLO and HELO alike are answered with the capabilities
C21_EhloOrHeloCapabilities ==
    [][ ( /\ DispatchStep
          /\ ~conn.isDisconnecting
          /\ InCommand(conn)
          /\ Verb(lastInput') \in {"EHLO", "HELO"} ) =>
            /\ wire' = <<Multiline(conn.textConnection.stream,
                                   Capabilities(conn.tlsConfig), "HELP")>>
            /\ InCommand(conn')
      ]_vars

\* the connection reads the replies to AUTH LOGIN
InAuthLogin(connection) ==
    /\ connection.isReadingAuth
    /\ ~connection.isReadingData
    /\ connection.authMechanism = AuthenticationMechanismLogin

\* what a step that takes a line of the AUTH LOGIN exchange does
LoginLineTaken ==
    /\ conn'.authLines = Append(conn.authLines, lastInput')
    /\ lastResult' = CommandResultOK
    /\ pc' = "loop"
    /\ IF Len(conn.authLines) = 0
       THEN /\ wire' = <<Reply(conn.textConnection.stream, 334, "UGFzc3dvcmQ6")>>
            /\ conn' = [conn EXCEPT !.authLines = conn'.authLines]
       ELSE /\ wire' = <<Reply(conn.textConnection.stream, 235,
                               "2.7.0 Authentication successful")>>
            /\ conn' = [conn EXCEPT !.authLines = conn'.authLines,
                                    !.isReadingAuth = FALSE]

(* C22, for the lines that are not empty: AUTH LOGIN is answered 334 with   *)
(* the base64 of Username: and starts the exchange with no line stored; a   *)
(* line that is not empty, a line that spells a command among them, is      *)
(* stored; the first is answered 334 with the base64 of Password:, the      *)
(* second 235, after which the connection reads commands.                   *)
C22_NonEmptyLoginLines ==
    [][ /\ ( /\ DispatchStep
             /\ ~conn.isDisconnecting
             /\ InCommand(conn)
             /\ lastInput' = L_AUTH_LOGIN ) =>
               /\ wire' = <<Reply(conn.textConnection.stream, 334, "VXNlcm5hbWU6")>>
               /\ InAuthLogin(conn')
               /\ conn'.authLines = <<>>
        /\ InAuthLogin(conn) => Len(conn.authLines) < 2
        /\ ( /\ DispatchStep
             /\ ~conn.isDisconnecting
             /\ InAuthLogin(conn)
             /\ lastInput' # L_EMPTY ) => LoginLineTaken
      ]_vars

(* C22: every line read during the AUTH LOGIN exchange, the empty line      *)
(* among them, is stored as username or password and answered 334 or 235.   *)
C22_LoginConsumesTwoLines ==
    [][ ( /\ DispatchStep
          /\ ~conn.isDisconnecting
          /\ InAuthLogin(conn) ) => LoginLineTaken
      ]_vars

\* the mechanism an AUTH line names, as handleAUTH looks it up, and the text
\* after it
Mechanism(line) == Str(SplitN2(Arguments(line), " ")[1])

MechanismArguments(line) ==
    LET parts == SplitN2(Arguments(line), " ")
    IN  IF Len(parts) = 1 THEN <<>> ELSE parts[2]

\* the codes of the lines written in a step
CodesOf(events) ==
    UNION {{events[i].lines[j].code : j \in 1..Len(events[i].lines)} :
              i \in {k \in 1..Len(events) : IsBatch(events[k])}}

\* the line is AUTH with a mechanism handleAUTH knows
RecognizedAuth(line) ==
    Verb(line) = "AUTH" /\ Mechanism(line) \in {"LOGIN", "PLAIN"}

(* C23: AUTH PLAIN, whatever follows it, stores what follows as the one     *)
(* credential line, is answered 235 at once and leaves the connection       *)
(* reading commands.  A connection reads AUTH replies only for LOGIN.  A    *)
(* step of an exchange with a mechanism handleAUTH knows writes lines of    *)
(* code 334 or 235 only and never results in CommandResultError, and the    *)
(* step that ends a LOGIN exchange with the session open is answered 235.   *)
C23_AuthAlwaysSucceeds ==
    [][ /\ ( /\ DispatchStep
             /\ ~conn.isDisconnecting
             /\ InCommand(conn)
             /\ Verb(lastInput') = "AUTH"
             /\ Mechanism(lastInput') = "PLAIN" ) =>
               /\ wire' = <<Reply(conn.textConnection.stream, 235,
                               "2.7.0 Authentication successful")>>
               /\ conn' = [conn EXCEPT
                      !.authMechanism = AuthenticationMechanismPlain,
                      !.authLines = <<MechanismArguments(lastInput')>>]
               /\ InCommand(conn')
               /\ pc' = "loop"
        /\ conn.isReadingAuth => InAuthLogin(conn)
        /\ ( /\ DispatchStep
             /\ ~conn.isDisconnecting
             /\ \/ InCommand(conn) /\ RecognizedAuth(lastInput')
                \/ conn.isReadingAuth ) =>
               /\ CodesOf(wire') \subseteq {334, 235}
               /\ lastResult' # CommandResultError
        /\ ( /\ DispatchStep
             /\ ~conn.isDisconnecting
             /\ conn.isReadingAuth
             /\ ~conn'.isReadingAuth ) =>
               /\ Len(conn'.authLines) = 2
               /\ wire' = <<Reply(conn.textConnection.stream, 235,
                               "2.7.0 Authentication successful")>>
      ]_vars

\* AUTH PLAIN AGEAYg== was answered 235 and its argument is the credential
C23_Witness ==
    /\ lastOp = "dispatch"
    /\ lastInput = L_AUTH_PLAIN
    /\ wire = <<Reply("plain", 235, "2.7.0 Authentication successful")>>
    /\ conn.authMechanism = AuthenticationMechanismPlain
    /\ conn.authLines = <<<<"A", "G", "E", "A", "Y", "g", "=", "=">>>>
    /\ InCommand(conn)
    /\ pc = "loop"

\* the batch has a line, every line but the last has the separator "-" and
\* the last has the separator " "
WellFormedBatch(batch) ==
    /\ Len(batch.lines) >= 1
    /\ \A j \in 1..Len(batch.lines) :
           batch.lines[j].sep = IF j = Len(batch.lines) THEN " " ELSE "-"

(* C24: in every batch written, by SendBanner or by a dispatch, every line  *)
(* but the last has "-" after the code and the last has a space: no batch   *)
(* ends with a continuation line and none has a final line before its end.  *)
C24_ContinuationOnAllButLast ==
    \A i \in 1..Len(wire) : IsBatch(wire[i]) => WellFormedBatch(wire[i])

\* EHLO without TLS material was answered by a batch of four lines, three of
\* them continuation lines
C24_Witness ==
    /\ lastOp = "dispatch"
    /\ lastInput = L_EHLO
    /\ ~conn.tlsConfig
    /\ Len(wire) = 1
    /\ Len(wire[1].lines) = 4
    /\ \A j \in 1..3 : wire[1].lines[j].sep = "-"
    /\ wire[1].lines[4] = [code |-> 250, sep |-> " ", text |-> "HELP"]

(* C25: the task of a connection starts at SendBanner with nothing written. *)
(* Until SendBanner has run nothing is written and no line is dispatched;   *)
(* SendBanner writes the one line 220 localhost ESMTP smtp-log on the       *)
(* plaintext stream and only then does the task enter its loop, to which    *)
(* SendBanner is never a way back.                                          *)
C25_GreetingFirst ==
    /\ (pc = "banner" /\ wire = <<>> /\ lastOp = "init")
    /\ [][ /\ pc = "banner" =>
                /\ ~DispatchStep
                /\ pc' \in {"banner", "loop"}
                /\ pc' = "banner" => wire' = <<>> /\ lastOp' = "init"
                /\ pc' = "loop" =>
                     /\ wire' = <<Reply("plain", 220,
                                        "localhost ESMTP smtp-log")>>
                     /\ lastOp' = "banner"
           /\ pc # "banner" => pc' # "banner" /\ lastOp' \in {lastOp} \cup
                    {"check", "dispatch", "timeout", "readerr", "close"}
           /\ DispatchStep => pc = "read"
         ]_vars

\* the greeting is on the wire and the task is about to enter its loop
C25_Witness ==
    /\ lastOp = "banner"
    /\ pc = "loop"
    /\ wire = <<Reply("plain", 220, "localhost ESMTP smtp-log")>>
    /\ lastInput = None

-----------------------------------------------------------------------------
(* One connection whose client sends one fixed session, line by line, each  *)
(* line after the reply to the line before it; delivered is the log of the  *)
(* lines readInput has returned.  The server's Stop, the deadline of the    *)
(* context and read errors happen as they do for any connection.            *)

Session ==
    <<L_EHLO, L_MAIL_A, L_RCPT_B, L_DATA, L_HELLO, L_DOT, L_QUIT>>

InitSession ==
    /\ conn \in {NewConnection(t) : t \in BOOLEAN}
    /\ pc = "banner"
    /\ ctxDone = FALSE
    /\ streamOpen = TRUE
    /\ registered = TRUE
    /\ lastOp = "init"
    /\ lastInput = None
    /\ wire = <<>>
    /\ persisted = <<>>
    /\ lastResult = None
    /\ tick = 0
    /\ netIn = <<>>
    /\ sent = <<>>
    /\ delivered = <<>>
    /\ vocabulary = {Session[i] : i \in 1..Len(Session)}
    /\ ServerAtStart

\* readInput returns the next line of the session, and it is dispatched
ReadSessionLine ==
    /\ pc = "read"
    /\ streamOpen
    /\ Len(delivered) < Len(Session)
    /\ LET input == Session[Len(delivered) + 1]
       IN  /\ Dispatched(conn, input, FALSE)
           /\ delivered' = Append(delivered, input)
    /\ UNCHANGED <<ctxDone, streamOpen, registered, netIn, sent, vocabulary,
                   serverVars>>

NextSession ==
    \/ SendBanner
    \/ LoopCheck
    \/ ReadSessionLine
    \/ \E err \in OpenStreamErrors : ReadError(err)
    \/ Close
    \/ StopMarks
    \/ Expire

SpecSession == InitSession /\ [][NextSession]_vars

\* the message the session hands to the logger
SessionMail ==
    [data |-> L_HELLO \o <<"\n">>,
     from |-> <<"a", "@", "x">>,
     to   |-> <<<<"b", "@", "x">>>>]

\* the message of the connection after the first k lines of the session
SessionMessage(k) ==
    CASE k \in {0, 1, 6, 7} -> SMTPMessage
      [] k = 2 -> [SMTPMessage EXCEPT !.from = SessionMail.from]
      [] k \in {3, 4} -> [SessionMail EXCEPT !.data = <<>>]
      [] k = 5 -> SessionMail

\* what is written in answer to line k of the session
SessionReplies(k, stream, tlsAvailable) ==
    CASE k = 1 -> <<Multiline(stream, Capabilities(tlsAvailable), "HELP")>>
      [] k \in {2, 3, 6} -> <<Reply(stream, 250, "OK")>>
      [] k = 4 -> <<Reply(stream, 354, "End data with <CRLF>.<CRLF>")>>
      [] k = 5 -> <<>>
      [] k = 7 -> <<Reply(stream, 221, "Service closing transmission channel")>>

(* C26: of the session EHLO client, MAIL FROM:<a@x>, RCPT TO:<b@x>, DATA,   *)
(* Hello, ".", QUIT on a connection that is not disconnecting, the lines    *)
(* are answered in order by the 250 batch that ends 250 HELP, 250 OK,       *)
(* 250 OK, 354, nothing, 250 OK and 221 Service closing transmission        *)
(* channel; the envelope grows line by line, the "." hands the message      *)
(* with sender a@x, recipient b@x and body Hello to the logger and leaves   *)
(* the envelope empty, nothing else is handed over, and after QUIT the      *)
(* task dispatches nothing more and closes the stream.                      *)
C26_FullSession ==
    [][ /\ (DispatchStep /\ ~conn.isDisconnecting) =>
              LET k == Len(delivered')
              IN  /\ delivered' = SubSeq(Session, 1, k)
                  /\ lastInput' = Session[k]
                  /\ conn.message = SessionMessage(k - 1)
                  /\ wire' = SessionReplies(k, "plain", conn.tlsConfig)
                  /\ conn'.message = SessionMessage(k)
                  /\ conn'.isReadingData = (k \in {4, 5})
                  /\ ~conn'.isReadingAuth
                  /\ persisted' = IF k = 6 THEN <<SessionMail>> ELSE <<>>
                  /\ lastResult' = IF k = 7 THEN CommandResultDisconnect
                                   ELSE CommandResultOK
                  /\ pc' = IF k = 7 THEN "close" ELSE "loop"
        /\ pc \in {"close", "closed"} =>
              /\ ~DispatchStep
              /\ pc' \in {"close", "closed"}
              /\ pc' = "closed" => ~streamOpen'
      ]_vars

\* the whole session was dispatched undisturbed and the connection is closed
C26_Witness ==
    /\ delivered = Session
    /\ ~conn.isDisconnecting
    /\ lastOp = "close"
    /\ conn.message = SMTPMessage
    /\ pc = "closed"
    /\ ~streamOpen

-----------------------------------------------------------------------------
(* The same session with a DatabaseLogger whose calls may fail: it is down  *)
(* or up when the connection is accepted (LogConnection) and may go down    *)
(* or come back between any two steps (LogMessage, LogMail).                *)

Loggers == {"up", "down"}

InitLogger ==
    /\ conn \in {[NewConnection(t) EXCEPT !.logger = l] :
                    t \in BOOLEAN, l \in Loggers}
    /\ pc = "banner"
    /\ ctxDone = FALSE
    /\ streamOpen = TRUE
    /\ registered = TRUE
    /\ lastOp = "init"
    /\ lastInput = None
    /\ wire = <<>>
    /\ persisted = <<>>
    /\ lastResult = None
    /\ tick = 0
    /\ netIn = <<>>
    /\ sent = <<>>
    /\ delivered = <<>>
    /\ vocabulary = {Session[i] : i \in 1..Len(Session)}
    /\ ServerAtStart

\* the database goes down or comes back
LoggerChanges ==
    /\ pc # "closed"
    /\ conn' = [conn EXCEPT !.logger = IF @ = "up" THEN "down" ELSE "up"]
    /\ UNCHANGED <<pc, ctxDone, streamOpen, registered, lastOp, lastInput,
                   wire, persisted, lastResult, tick, pipeVars>>

NextLogger ==
    \/ NextSession
    \/ LoggerChanges

SpecLogger == InitLogger /\ [][NextLogger]_vars

\* the calls the step made to the logger: LogMessage for the line read and
\* for every line written, LogMail for every message handed over
LoggerCalls(events, mails) ==
    1 + Cardinality({<<i, j>> \in (1..Len(events)) \X (1..5) :
                        IsBatch(events[i]) /\ j <= Len(events[i].lines)})
      + Len(mails)

\* line k of the session is dispatched as it is when nothing fails
SessionExchange(k) ==
    /\ lastInput' = Session[k]
    /\ wire' = SessionReplies(k, "plain", conn.tlsConfig)
    /\ conn' = [conn EXCEPT !.message = SessionMessage(k),
                            !.isReadingData = (k \in {4, 5})]
    /\ persisted' = IF k = 6 THEN <<SessionMail>> ELSE <<>>
    /\ lastResult' = IF k = 7 THEN CommandResultDisconnect ELSE CommandResultOK
    /\ pc' = IF k = 7 THEN "close" ELSE "loop"

(* C27: whether the logger's calls succeed or fail, when the connection is  *)
(* accepted and at every step after, the greeting is written and every     *)
(* line of the session is answered and changes the connection as it does    *)
(* when nothing fails: the "." is answered 250 OK and empties the envelope  *)
(* after the message was handed to LogMail, a line read while the           *)
(* connection is disconnecting is answered 421, and no step of the task     *)
(* changes the logger.                                                      *)
C27_LoggerFailureChangesNothing ==
    [][ /\ (pc = "banner" /\ pc' # "banner") =>
              /\ wire' = <<Reply("plain", 220, "localhost ESMTP smtp-log")>>
              /\ pc' = "loop"
        /\ DispatchStep =>
              /\ conn'.logger = conn.logger
              /\ delivered' = SubSeq(Session, 1, Len(delivered'))
              /\ IF conn.isDisconnecting
                 THEN /\ wire' = <<Reply("plain", 421,
                            "Service not available, closing transmission channel")>>
                      /\ conn' = conn
                      /\ pc' = "close"
                 ELSE SessionExchange(Len(delivered'))
      ]_vars

\* the "." was answered 250 OK and the envelope is empty, with a logger
\* whose three calls of the step (the line read, the line written, the mail)
\* fail
C27_Witness ==
    /\ lastOp = "dispatch"
    /\ lastInput = L_DOT
    /\ conn.logger = "down"
    /\ ~conn.isDisconnecting
    /\ delivered = SubSeq(Session, 1, 6)
    /\ LoggerCalls(wire, persisted) = 3
    /\ wire = <<Reply("plain", 250, "OK")>>
    /\ conn.message = SMTPMessage
    /\ InCommand(conn)
    /\ pc = "loop"

\* the status codes the server uses
StatusCodes ==
    {214, 220, 221, 235, 250, 252, 334, 354, 421, 500, 501, 502, 503, 550}

(* C28: every line written, in the greeting and in every batch of every     *)
(* dispatch, carries one of the codes 214, 220, 221, 235, 250, 252, 334,    *)
(* 354, 421, 500, 501, 502, 503 and 550.                                    *)
C28_CodesFromTheSet ==
    CodesOf(wire) \subseteq StatusCodes

\* HELP was answered 214, a code no other command is answered with
C28_Witness ==
    /\ lastOp = "dispatch"
    /\ lastInput = L_HELP
    /\ ~conn.isDisconnecting
    /\ CodesOf(wire) = {214}

\* the connection's insertion into n.connections (line 269) is complete and
\* its removal (line 291) is not
Inserted(c) ==
    tasks[c].pc \in {"Add", "WaitForCommands", "Close", "removeConnection"}

(* C29: while only the goroutines of the connections insert and remove, as  *)
(* they do until CloseConnections begins, n.connections holds exactly the   *)
(* connections whose insertion is complete and whose removal is not, each   *)
(* once: no insertion and no removal is lost.                               *)
C29_RegistryExact ==
    signalTask.pc \in {"waiting", "Stop", "mark", "Sleep"} =>
        /\ Members(server.connections) = {c \in Conns : Inserted(c)}
        /\ NoDuplicate(server.connections)

\* the connections CloseConnections has called Close on so far
ForceClosed ==
    LET begun ==
            CASE signalTask.pc = "CloseConnections" ->
                     Len(signalTask.forced) - Len(signalTask.range)
              [] signalTask.pc \in {"removeConnection", "Done"} ->
                     Len(signalTask.forced) - Len(signalTask.range) + 1
              [] signalTask.pc \in {"Fatalf", "exited"} ->
                     Len(signalTask.forced)
              [] OTHER -> 0
    IN  {signalTask.forced[i] : i \in 1..begun}

\* the connection's own goroutine has called Close (line 276)
SelfClosed(c) == tasks[c].pc \in {"removeConnection", "Done", "returned"}

(* C30: no connection has Close called on it both by CloseConnections and   *)
(* by its own goroutine, and the counter of the wait group is never below   *)
(* zero.                                                                    *)
C30_ClosedAtMostOnce ==
    /\ \A c \in Conns : ~(SelfClosed(c) /\ c \in ForceClosed)
    /\ server.waitGroup >= 0
    /\ ~server.panicked

\* C30, its last part alone: the counter of the wait group is never below
\* zero
C30_CounterNeverNegative ==
    server.waitGroup >= 0

\* the lines of the batches among events, in the order they were written
RECURSIVE WrittenLines(_)
WrittenLines(events) ==
    IF events = <<>> THEN <<>>
    ELSE (IF IsBatch(Head(events)) THEN Head(events).lines ELSE <<>>)
             \o WrittenLines(Tail(events))

\* the lines sendMessages makes of responses
LinesOfResponses(responses) ==
    [i \in 1..Len(responses) |-> WireLine(responses[i])]

\* the dispatches by HandleCommand that account for this step: the same
\* connection before and after, the same line, the same events on the wire
DispatchesOfStep ==
    {h \in {HandleCommand(conn, lastInput', handshake) : handshake \in BOOLEAN} :
        h.conn = conn' /\ h.wire = wire' /\ h.result = lastResult'}

(* C31: the lines a dispatch puts on the wire are the responses its         *)
(* handlers queued, in the order they queued them, and nothing is left in   *)
(* the queue when HandleCommand returns; a line is read and dispatched only *)
(* from the read position of the loop, and a dispatch leaves the task at    *)
(* the top of the loop or at Close, so all of a line's replies are written  *)
(* before the next line is read.                                            *)
C31_QueuedOrderThenNextRead ==
    [][ DispatchStep =>
          /\ pc = "read"
          /\ pc' \in {"loop", "close"}
          /\ lastOp' = "dispatch"
          /\ DispatchesOfStep # {}
          /\ \A h \in DispatchesOfStep :
                 /\ WrittenLines(wire') = LinesOfResponses(h.queued)
                 /\ h.messages = <<>>
      ]_vars

\* an EHLO was answered on a connection with TLS material: five lines, the
\* banner host first and HELP last
C31_Witness ==
    /\ lastOp = "dispatch"
    /\ lastInput = L_EHLO
    /\ Len(WrittenLines(wire)) = 5
    /\ WrittenLines(wire)[1].text = BannerHost
    /\ WrittenLines(wire)[4].text = "STARTTLS"
    /\ WrittenLines(wire)[5].text = "HELP"
    /\ pc = "loop"

\* the three classes of a read error: what errors.As, Temporary and Timeout
\* tell of it
TransientTimeout(err) == err.opError /\ err.temporary /\ err.timeout

TransientOther(err) == err.opError /\ err.temporary /\ ~err.timeout

Fatal(err) == ~(err.opError /\ err.temporary)

\* this step is a read that ended with an error
ReadErrorStep == pc = "read" /\ lastOp' \in {"timeout", "readerr"}

(* C32 with the timeout as the code treats it: a read error writes nothing  *)
(* and changes no field of the connection; the loop goes on after a         *)
(* timeout or another temporary error unless isDisconnecting is set, and    *)
(* ends after every other error.                                            *)
C32_ClassifiedAsCoded ==
    [][ ReadErrorStep =>
          /\ wire' = <<>>
          /\ conn' = conn
          /\ \E err \in OpenStreamErrors :
                 /\ (lastOp' = "timeout") = TransientTimeout(err)
                 /\ pc' = IF Fatal(err) \/ conn.isDisconnecting
                          THEN "close" ELSE "loop"
      ]_vars

(* C32: a read error is one of three kinds: after a read-deadline timeout   *)
(* nothing changes and the loop goes on; after another temporary error the  *)
(* loop goes on unless isDisconnecting is set, and then it ends; after any  *)
(* other error the loop ends and the task goes on to Close.                 *)
C32_ThreeOutcomes ==
    [][ ReadErrorStep =>
          /\ wire' = <<>>
          /\ conn' = conn
          /\ \A err \in OpenStreamErrors :
                 Cardinality({k \in {"timeout", "other", "fatal"} :
                     \/ k = "timeout" /\ TransientTimeout(err)
                     \/ k = "other" /\ TransientOther(err)
                     \/ k = "fatal" /\ Fatal(err)}) = 1
          /\ \E err \in OpenStreamErrors :
                 /\ (lastOp' = "timeout") = TransientTimeout(err)
                 /\ pc' = IF TransientTimeout(err) THEN "loop"
                          ELSE IF TransientOther(err)
                               THEN (IF conn.isDisconnecting
                                     THEN "close" ELSE "loop")
                          ELSE "close"
      ]_vars

-----------------------------------------------------------------------------
(* The task with a client that sends lines ahead, as PIPELINING invites it  *)
(* to, and then resets the stream.  The lines the reader had taken into its *)
(* buffer are still returned by ReadLine; what the socket held is gone, and *)
(* every write fails.  sendMessages logs a failed write and goes on.        *)

ResetLines == {L_EHLO, L_NOOP, L_STARTTLS}

InitReset ==
    /\ conn = NewConnection(TRUE)
    /\ pc = "banner"
    /\ ctxDone = FALSE
    /\ streamOpen = TRUE
    /\ registered = TRUE
    /\ lastOp = "init"
    /\ lastInput = None
    /\ wire = <<>>
    /\ persisted = <<>>
    /\ lastResult = None
    /\ tick = 0
    /\ netIn = <<>>
    /\ sent = <<>>
    /\ delivered = <<>>
    /\ vocabulary = ResetLines
    /\ ServerAtStart

\* the client resets the stream: what the socket held is discarded
PeerResets ==
    /\ conn.peer = "open"
    /\ pc # "closed"
    /\ conn' = [conn EXCEPT !.peer = "reset"]
    /\ netIn' = <<>>
    /\ UNCHANGED <<pc, ctxDone, streamOpen, registered, lastOp, lastInput,
                   wire, persisted, lastResult, tick, sent, delivered,
                   vocabulary, serverVars>>

\* readInput finds the buffer empty and the read of the socket fails
ReadReset ==
    /\ pc = "read"
    /\ conn.textConnection.buffer = <<>>
    /\ conn.peer = "reset"
    /\ pc' = IF canRetryError(conn, ErrClosed) THEN "loop" ELSE "close"
    /\ wire' = <<>>
    /\ Quiet("readerr")
    /\ UNCHANGED <<conn, ctxDone, streamOpen, registered, tick, pipeVars>>

NextReset ==
    \/ \E line \in ResetLines : ClientSend(line)
    \/ PeerResets
    \/ SendBanner
    \/ LoopCheck
    \/ \E n \in 0..MaxSent, handshake \in BOOLEAN : BufferedRead(n, handshake)
    \/ ReadTimeout
    \/ ReadReset
    \/ Close

SpecReset == InitReset /\ [][NextReset]_vars

\* the writes of a step that began with the stream reset: all of them fail
FailedWrites ==
    IF DispatchStep /\ conn.peer = "reset" THEN WrittenLines(wire') ELSE <<>>

(* C33: once the stream is unusable no further response is attempted: when  *)
(* a write fails on a reset stream no other line is written in that         *)
(* dispatch, and nothing is written after a handshake that failed.          *)
C33_NothingAfterUnusable ==
    [][ /\ Len(FailedWrites) <= 1
        /\ \A i, j \in 1..Len(wire') :
               (i < j /\ wire'[i].kind = "handshake" /\ ~wire'[i].ok)
                   => ~IsBatch(wire'[j])
      ]_vars

\* the part of C33 about writes alone
C33_OneFailedWriteAtMost ==
    [][ Len(FailedWrites) <= 1 ]_vars

\* the connection reads commands and is not disconnecting, and this step
\* dispatches a line to it
CommandDispatch ==
    DispatchStep /\ ~conn.isDisconnecting /\ InCommand(conn)

\* the line of this step is one of those that are to leave the envelope
\* alone: a verb other than MAIL, RCPT, RSET, DATA, QUIT and STARTTLS, or a
\* MAIL, RCPT or DATA that is refused
LeavesEnvelope ==
    /\ lastInput' # L_EMPTY
    /\ \/ Verb(lastInput') \notin
              {"MAIL", "RCPT", "RSET", "DATA", "QUIT", "STARTTLS"}
       \/ /\ Verb(lastInput') \in {"MAIL", "RCPT", "DATA"}
          /\ lastResult' = CommandResultError

\* the envelope changes in this step only by a MAIL, RCPT or RSET answered
\* 250 while the connection reads commands, or by a line of a body
EnvelopeChangesOnlyAsMeant ==
    (DispatchStep /\ conn'.message # conn.message) =>
        \/ /\ CommandDispatch
           /\ Verb(lastInput') \in {"MAIL", "RCPT", "RSET"}
           /\ lastResult' = CommandResultOK
           /\ wire' = <<Reply(conn.textConnection.stream, 250, "OK")>>
           /\ conn'.message.data = conn.message.data
           /\ Verb(lastInput') = "MAIL" => conn'.message.to = conn.message.to
           /\ Verb(lastInput') = "RCPT" =>
                  conn'.message.from = conn.message.from
           /\ Verb(lastInput') = "RSET" => conn'.message = SMTPMessage
        \/ /\ ~conn.isDisconnecting
           /\ conn.isReadingData
           /\ IF lastInput' = L_DOT
              THEN conn'.message = SMTPMessage
              ELSE /\ conn'.message.from = conn.message.from
                   /\ conn'.message.to = conn.message.to

(* C34 as amended: the envelope changes only by a MAIL, RCPT or RSET        *)
(* answered 250 in Command state and by the lines of a body; an unknown     *)
(* verb, NOOP, HELP, VRFY, EHLO, HELO, AUTH, a refused MAIL or RCPT and a   *)
(* DATA answered 503 leave sender, recipients and body as they were and     *)
(* the task in its loop; they leave the connection reading commands, with   *)
(* every field as it was, except AUTH, which sets the auth fields, and      *)
(* AUTH LOGIN, after which the connection reads the AUTH replies.           *)
C34_EnvelopeFrame ==
    [][ /\ EnvelopeChangesOnlyAsMeant
        /\ (CommandDispatch /\ LeavesEnvelope) =>
               /\ conn'.message = conn.message
               /\ ~conn'.isReadingData
               /\ pc' = "loop"
               /\ IF Verb(lastInput') = "AUTH"
                  THEN conn'.isReadingAuth =
                           (Mechanism(lastInput') = "LOGIN")
                  ELSE conn' = conn
      ]_vars

\* AUTH LOGIN was dispatched with a sender and a recipient in the envelope:
\* they are still there, and the connection reads the AUTH replies
C34_Witness ==
    /\ lastOp = "dispatch"
    /\ lastInput = L_AUTH_LOGIN
    /\ conn.message.from # <<>>
    /\ conn.message.to # <<>>
    /\ conn.isReadingAuth
    /\ pc = "loop"

\* C34 as stated: each of those lines leaves the envelope as it was and the
\* connection in the protocol state it was in, reading commands
C34_OtherInputsChangeNothing ==
    [][ /\ EnvelopeChangesOnlyAsMeant
        /\ (CommandDispatch /\ LeavesEnvelope) =>
               /\ conn'.message = conn.message
               /\ InCommand(conn')
               /\ pc' = "loop"
      ]_vars

\* how many times x occurs in seq
Occurrences(x, seq) == Cardinality({i \in 1..Len(seq) : seq[i] = x})

(* C35: every response a dispatch queued is written once: each line is on   *)
(* the wire as many times as it was queued, no line was written that was    *)
(* not queued, and the queue is empty when HandleCommand returns; in        *)
(* particular the 220 of STARTTLS, flushed before the handshake, is not     *)
(* written again by the Flush at the end of the dispatch.                   *)
C35_WrittenExactlyOnce ==
    [][ DispatchStep =>
          /\ \A h \in DispatchesOfStep :
                 /\ Len(WrittenLines(wire')) = Len(h.queued)
                 /\ \A i \in 1..Len(h.queued) :
                        LET line == WireLine(h.queued[i])
                        IN  Occurrences(line, WrittenLines(wire')) =
                                Occurrences(line, LinesOfResponses(h.queued))
                 /\ h.messages = <<>>
          /\ ( /\ CommandDispatch
               /\ lastInput' = L_STARTTLS
               /\ conn.tlsConfig ) =>
                 /\ wire'[1] = Reply(conn.textConnection.stream, 220,
                                     "Ready to start TLS")
                 /\ wire'[2].kind = "handshake"
                 /\ Occurrences([code |-> 220, sep |-> " ",
                                 text |-> "Ready to start TLS"],
                                WrittenLines(wire')) = 1
      ]_vars

\* a STARTTLS whose handshake failed: the 220 went out once, before the
\* handshake, and the 550 once, after it
C35_Witness ==
    /\ lastOp = "dispatch"
    /\ lastInput = L_STARTTLS
    /\ Len(wire) = 3
    /\ wire[2] = [kind |-> "handshake", via |-> "plain", ok |-> FALSE]
    /\ WrittenLines(wire) =
           <<[code |-> 220, sep |-> " ", text |-> "Ready to start TLS"],
             [code |-> 550, sep |-> " ", text |-> "Failed to start TLS"]>>
    /\ pc = "close"

-----------------------------------------------------------------------------
(* The task with a client that opens a message and then sends, as its      *)
(* body, lines that spell commands.                                         *)

\* the lines that open the message
Envelope == <<L_MAIL_A, L_RCPT_B, L_DATA>>

\* what this client sends while the connection reads the body
CaptureLines ==
    {L_DOT, L_DOTDOT, L_EMPTY, L_QUIT, L_RSET, L_MAIL_C, L_RCPT_D, L_STARTTLS}

\* what it sends once the body is closed
AfterCapture == {L_NOOP, L_QUIT}

InitCapture ==
    /\ conn \in {NewConnection(t) : t \in BOOLEAN}
    /\ pc = "banner"
    /\ ctxDone = FALSE
    /\ streamOpen = TRUE
    /\ registered = TRUE
    /\ lastOp = "init"
    /\ lastInput = None
    /\ wire = <<>>
    /\ persisted = <<>>
    /\ lastResult = None
    /\ tick = 0
    /\ netIn = <<>>
    /\ sent = <<>>
    /\ delivered = <<>>
    /\ vocabulary = CaptureLines \cup AfterCapture
    /\ ServerAtStart

\* readInput returns the client's next line, and it is dispatched; the
\* client sends one line after the body and then QUIT
ReadCaptureLine(input, handshake) ==
    /\ pc = "read"
    /\ streamOpen
    /\ input \in
         IF Len(delivered) < Len(Envelope)
         THEN {Envelope[Len(delivered) + 1]}
         ELSE IF conn.isReadingData THEN CaptureLines
         ELSE IF delivered[Len(delivered)] = L_DOT THEN AfterCapture
         ELSE {L_QUIT}
    /\ WithinBounds(conn, input)
    /\ Dispatched(conn, input, handshake)
    /\ delivered' = Append(delivered, input)
    /\ UNCHANGED <<ctxDone, streamOpen, registered, netIn, sent, vocabulary,
                   serverVars>>

NextCapture ==
    \/ SendBanner
    \/ LoopCheck
    \/ \E input \in Members(Envelope) \cup CaptureLines \cup AfterCapture,
          handshake \in BOOLEAN : ReadCaptureLine(input, handshake)
    \/ \E err \in OpenStreamErrors : ReadError(err)
    \/ Close
    \/ StopMarks
    \/ Expire

SpecCapture == InitCapture /\ [][NextCapture]_vars

\* this step dispatches a line to a connection that reads a body and is not
\* disconnecting
BodyDispatch ==
    DispatchStep /\ conn.isReadingData /\ ~conn.isDisconnecting

\* s begins with p
IsPrefix(p, s) == Len(p) <= Len(s) /\ SubSeq(s, 1, Len(p)) = p

(* C36: while a connection reads a body and is not disconnecting, a line    *)
(* other than "." is appended to the body, less one leading ".", whatever   *)
(* it spells: nothing is written, nothing is handed to the logger, no       *)
(* other field changes, the connection goes on reading the body and the     *)
(* task stays in its loop; until the "." no step takes anything off the     *)
(* body.                                                                    *)
C36_BodyLinesOnly ==
    [][ /\ (BodyDispatch /\ lastInput' # L_DOT) =>
               /\ conn' = [conn EXCEPT !.message.data =
                              @ \o Unstuffed(lastInput') \o <<"\n">>]
               /\ wire' = <<>>
               /\ persisted' = <<>>
               /\ lastResult' = CommandResultOK
               /\ pc' = "loop"
        /\ (conn.isReadingData /\ ~(BodyDispatch /\ lastInput' = L_DOT)) =>
               /\ conn'.isReadingData
               /\ IsPrefix(conn.message.data, conn'.message.data)
               /\ conn'.message.from = conn.message.from
               /\ conn'.message.to = conn.message.to
      ]_vars

\* STARTTLS and then an empty line were taken as the body of a message on a
\* connection with TLS material, which is still plaintext and still open
C36_Witness ==
    /\ lastOp = "dispatch"
    /\ lastInput = L_EMPTY
    /\ conn.isReadingData
    /\ conn.tlsConfig
    /\ conn.netConnection = "plain"
    /\ conn.message.data = L_STARTTLS \o <<"\n", "\n">>
    /\ Len(conn.message.to) = 1
    /\ wire = <<>>
    /\ pc = "loop"

\* the step ran a handshake and it succeeded
HandshakeSucceeded(events) ==
    \E i \in 1..Len(events) :
        events[i].kind = "handshake" /\ events[i].ok

(* C37: a STARTTLS whose handshake succeeds changes netConnection and       *)
(* textConnection and nothing else: sender, recipients, body, the auth      *)
(* mechanism and the auth lines are what they were; and a DATA is answered  *)
(* 354 whenever a sender and a recipient are in the envelope, on the        *)
(* secure stream as on the plaintext one, so what MAIL and RCPT stored      *)
(* before the upgrade counts after it.                                      *)
C37_UpgradeKeepsEnvelopeAndAuth ==
    [][ /\ ( /\ CommandDispatch
             /\ lastInput' = L_STARTTLS
             /\ HandshakeSucceeded(wire') ) =>
               /\ conn'.message = conn.message
               /\ conn'.authMechanism = conn.authMechanism
               /\ conn'.authLines = conn.authLines
               /\ InCommand(conn')
               /\ conn'.netConnection = "tls"
               /\ \A f \in DOMAIN conn \ {"netConnection", "textConnection"} :
                      conn'[f] = conn[f]
               /\ pc' = "loop"
        /\ ( /\ CommandDispatch
             /\ lastInput' = L_DATA
             /\ conn.netConnection = "tls"
             /\ conn.message.from # <<>>
             /\ conn.message.to # <<>> ) =>
               /\ wire' = <<Reply("tls", 354, "End data with <CRLF>.<CRLF>")>>
               /\ conn'.isReadingData
               /\ conn'.message = conn.message
      ]_vars

\* a handshake succeeded on a connection that held a sender, a recipient
\* and the lines of an AUTH PLAIN, and holds them still
C37_Witness ==
    /\ lastOp = "dispatch"
    /\ lastInput = L_STARTTLS
    /\ HandshakeSucceeded(wire)
    /\ conn.netConnection = "tls"
    /\ Str(conn.message.from) = "a@x"
    /\ Len(conn.message.to) = 1
    /\ conn.authMechanism = AuthenticationMechanismPlain
    /\ conn.authLines # <<>>
    /\ pc = "loop"

\* this step is a MAIL answered 250 on a connection that reads commands
MailAccepted ==
    /\ CommandDispatch
    /\ Verb(lastInput') = "MAIL"
    /\ lastResult' = CommandResultOK

(* C38: a MAIL answered 250 makes its address the sender, whether or not    *)
(* there was a sender before, and leaves the recipients and the body as     *)
(* they were; a MAIL that is refused changes nothing; so no MAIL adds or    *)
(* removes a recipient, and the one sender the envelope has is that of the  *)
(* last MAIL answered 250.                                                  *)
C38_MailReplacesSenderOnly ==
    [][ (CommandDispatch /\ Verb(lastInput') = "MAIL") =>
          /\ conn'.message.to = conn.message.to
          /\ conn'.message.data = conn.message.data
          /\ IF lastResult' = CommandResultOK
             THEN /\ wire' = <<Reply(conn.textConnection.stream, 250, "OK")>>
                  /\ conn' = [conn EXCEPT !.message.from =
                                 AddressOf(Arguments(lastInput'), "FROM:")]
             ELSE conn' = conn
      ]_vars

\* MAIL FROM:<c@x> was answered 250 with two recipients in the envelope:
\* c@x is the sender and both recipients are still there
C38_Witness ==
    /\ lastOp = "dispatch"
    /\ lastInput = L_MAIL_C
    /\ lastResult = CommandResultOK
    /\ Str(conn.message.from) = "c@x"
    /\ Len(conn.message.to) = 2
    /\ pc = "loop"

\* no MAIL is answered 250 on a connection that has a sender and a
\* recipient (not so: the second MAIL of the claim does happen)
C38_NoSecondMail ==
    [][ ~( /\ MailAccepted
           /\ Str(conn.message.from) = "a@x"
           /\ conn.message.to # <<>>
           /\ Str(conn'.message.from) = "c@x" ) ]_vars

\* the protocol states a connection that is open and not disconnecting is in
ProtocolStates(connection) ==
    {state \in {"Command", "DataCapture", "AuthContinuation"} :
        \/ state = "Command" /\ InCommand(connection)
        \/ state = "DataCapture" /\ connection.isReadingData
        \/ state = "AuthContinuation" /\ connection.isReadingAuth}

(* C39: isReadingData and isReadingAuth are never both set: a connection    *)
(* is in exactly one of Command, DataCapture and AuthContinuation.          *)
C39_OneSubProtocolState ==
    /\ ~(conn.isReadingData /\ conn.isReadingAuth)
    /\ Cardinality(ProtocolStates(conn)) = 1

\* a connection that went through a whole AUTH LOGIN exchange and now reads
\* a body: it left AuthContinuation before it entered DataCapture
C39_Witness ==
    /\ conn.isReadingData
    /\ ~conn.isReadingAuth
    /\ conn.authMechanism = AuthenticationMechanismLogin
    /\ Len(conn.authLines) = 2
    /\ lastOp = "dispatch"
    /\ lastInput = L_DATA

\* the connection is where HandleAuthPayload can take its line: reading
\* AUTH replies with the mechanism LOGIN and fewer than two lines collected
LoginPending(connection) ==
    connection.isReadingAuth =>
        /\ connection.authMechanism = AuthenticationMechanismLogin
        /\ Len(connection.authLines) < 2

(* C40: a connection that reads AUTH replies has the mechanism LOGIN and    *)
(* fewer than two auth lines, before and after every step; AUTH LOGIN sets  *)
(* the mechanism to LOGIN and empties the auth lines whatever an earlier    *)
(* AUTH left there; so a line handed to HandleAuthPayload is never taken    *)
(* by the branch that returns CommandResultError with nothing queued: it    *)
(* is answered by one line, 334 or 235, with CommandResultOK.               *)
C40_SilentAuthBranchUnreachable ==
    [][ /\ LoginPending(conn)
        /\ LoginPending(conn')
        /\ (CommandDispatch /\ lastInput' = L_AUTH_LOGIN) =>
               /\ conn'.isReadingAuth
               /\ conn'.authMechanism = AuthenticationMechanismLogin
               /\ conn'.authLines = <<>>
        /\ ( /\ DispatchStep
             /\ ~conn.isDisconnecting
             /\ conn.isReadingAuth
             /\ lastInput' # L_EMPTY ) =>
               /\ lastResult' = CommandResultOK
               /\ CodesOf(wire') \in {{334}, {235}}
               /\ Len(WrittenLines(wire')) = 1
               /\ conn'.authLines = Append(conn.authLines, lastInput')
      ]_vars

\* the first reply of an AUTH LOGIN exchange was taken and the password
\* asked for
C40_Witness ==
    /\ lastOp = "dispatch"
    /\ lastInput = L_USER
    /\ conn.isReadingAuth
    /\ conn.authMechanism = AuthenticationMechanismLogin
    /\ conn.authLines = <<L_USER>>
    /\ wire = <<Reply(conn.textConnection.stream, 334, "UGFzc3dvcmQ6")>>

\* no AUTH LOGIN follows an AUTH PLAIN on the same connection (not so: the
\* case C40 names does happen)
C40_NoLoginAfterPlain ==
    [][ ~( /\ CommandDispatch
           /\ lastInput' = L_AUTH_LOGIN
           /\ conn.authMechanism = AuthenticationMechanismPlain
           /\ conn.authLines # <<>> ) ]_vars

=============================================================================
